---- MODULE Spec2Model ----
(***************************************************************************)
(* The LLM enhancement pipeline of the code generator:                     *)
(*   llmEnhancer.ts     enhanceWithLLM, processFillActionIfLast,           *)
(*                      processPressActionIfLast, enhanceCompleteScript    *)
(*   codegenEnhancer.ts CodegenEnhancer.enhanceActionWithLLM,              *)
(*                      waitForPendingRequests, enhanceCompleteScript      *)
(*                                                                         *)
(*   llmConfig.ts       loadLLMConfig, mergeConfigs                        *)
(*   llmProvider.ts     createProvider and the provider classes            *)
(*   the generator      JavaScriptLanguageGenerator.generateAction         *)
(*                                                                         *)
(* The two enhancer files keep their own module-level maps.  A behaviour   *)
(* runs one of                                                             *)
(* the independent state machines, chosen by the variable "module":        *)
(*   "llmEnhancer"        the per-action pipeline of llmEnhancer.ts        *)
(*   "llmEnhancerScript"  enhanceCompleteScript of llmEnhancer.ts, which   *)
(*                        reads and writes no module-level map             *)
(*   "codegenEnhancer"    one CodegenEnhancer object of codegenEnhancer.ts *)
(*   "llmConfig"          loadLLMConfig of llmConfig.ts                    *)
(*   "llmProvider"        one provider object of llmProvider.ts            *)
(*   "javascript"         JavaScriptLanguageGenerator.generateAction on    *)
(*                        top of the per-action pipeline of llmEnhancer.ts *)
(*   "scriptCache"        enhanceCompleteScript of the configuration-      *)
(*                        driven llmEnhancer.ts, with processedScriptCache *)
(*   "payload"            the per-action pipeline of llmEnhancer.ts called *)
(*                        with one Action object, and its prompts          *)
(*   "codegenPayload"     the same for one CodegenEnhancer                 *)
(*   "llmConfigHosted"    loadLLMConfig with the hosted providers          *)
(*   "processTemplate"    processTemplate and the user prompt built by it  *)
(*                                                                         *)
(* Text is a sequence of tokens.  A token is a piece of text that the code *)
(* treats as a unit: the three-backtick fence, the tags "javascript",      *)
(* "js" and "typescript", a newline, a blank, the calls ".click(",         *)
(* ".fill(", ".goto(", and opaque                                          *)
(* words.  One JavaScript job (a call, a timer callback, a backend         *)
(* response together with the promise reactions it triggers) is one step.  *)
(***************************************************************************)
EXTENDS Integers, Sequences, FiniteSets, TLC

VARIABLES
  module,                \* which state machine this behaviour runs
  now,                   \* Date.now(), in milliseconds
  processedActionCache,  \* Map<string, string>: action key -> enhanced code
  pendingRequests,       \* Map<string, Promise<string>>: action key -> promise id
  fillActionsTracker,    \* Map: element key -> {timestamp, actionContext}
  pressActionsTracker,   \* Map: element key -> {timestamp, actionContext}
  promises,              \* the request promises created so far, by id
  timers,                \* the checks scheduled with setTimeout, in scheduling order
  calls,                 \* the per-action calls made so far and what each returned
  ncalls,                \* the number of per-action calls made so far
  invocations,           \* action key -> number of backend invocations (model.invoke)
  scriptCalls,           \* the enhanceCompleteScript calls made so far
  scriptEnhancer,        \* codegenEnhancer: completeScriptEnhancer and scriptPrompt are set
  defaultLLMConfig,      \* llmConfig: the exported object defaultLLMConfig
  loads,                 \* llmConfig: the loadLLMConfig calls made so far
  provider,              \* llmProvider: the fields of the provider object
  generates,             \* llmProvider: the generate calls made so far
  useEnhancer,           \* javascript: this._useEnhancer
  generated,             \* javascript: the generateAction calls made so far
  processedScriptCache,  \* scriptCache: Map<string, string>, script hash -> enhanced script
  objects,               \* payload: the caller's Action object and the objects it refers to
  prepared,              \* payload: the calls and dispatches made so far, with their prompts
  resolved,              \* llmConfigHosted: the loadLLMConfig calls made so far
  prompts                \* processTemplate: the user prompts built so far

configVars == <<defaultLLMConfig, loads, resolved, prompts>>

providerVars == <<provider, generates>>

generatorVars == <<useEnhancer, generated>>

scriptCacheVars == <<processedScriptCache>>

payloadVars == <<objects, prepared>>

vars == <<module, now, processedActionCache, pendingRequests, fillActionsTracker,
          pressActionsTracker, promises, timers, calls, ncalls, invocations, scriptCalls,
          scriptEnhancer, defaultLLMConfig, loads, provider, generates, useEnhancer,
          generated, processedScriptCache, objects, prepared, resolved,
          prompts>>

----------------------------------------------------------------------------
(* Bounds of the model.                                                    *)

MaxCalls == 2          \* per-action calls in one behaviour
MaxTicks == 4         \* clock ticks in one behaviour
MaxScriptCalls == 1    \* enhanceCompleteScript calls in one behaviour
MaxOps == 10           \* clicks in a script
MaxFewOps == 1         \* fills, and navigations, in a script

----------------------------------------------------------------------------
(* Program constants.                                                      *)

FILL_ACTION_THRESHOLD == 4000
PRESS_ACTION_THRESHOLD == 2000

\* The clock advances in steps of the shorter quiet period.
Granule == PRESS_ACTION_THRESHOLD

----------------------------------------------------------------------------
(* Maps.                                                                   *)

EmptyMap == << >>

MapHas(m, k) == k \in DOMAIN m

MapSet(m, k, v) == [x \in (DOMAIN m) \cup {k} |-> IF x = k THEN v ELSE m[x]]

MapDelete(m, k) == [x \in (DOMAIN m) \ {k} |-> m[x]]

----------------------------------------------------------------------------
(* Text.                                                                   *)

\* The token that stands for the three-backtick fence of a markdown code block.
Fence == "FENCE"
NL == "\n"
Blank == " "

IsSpace(t) == t \in {NL, Blank}

\* String.prototype.includes(fence)
IncludesFence(s) == \E i \in 1..Len(s) : s[i] = Fence

\* String.prototype.trim()
RECURSIVE TrimStart(_)
TrimStart(s) ==
  IF s = << >> THEN << >>
  ELSE IF IsSpace(Head(s)) THEN TrimStart(Tail(s)) ELSE s

RECURSIVE TrimEnd(_)
TrimEnd(s) ==
  IF s = << >> THEN << >>
  ELSE IF IsSpace(s[Len(s)]) THEN TrimEnd(SubSeq(s, 1, Len(s) - 1)) ELSE s

Trim(s) == TrimEnd(TrimStart(s))

\* Where the capture group of /FENCE(?:javascript|js)?\n([\s\S]*?)FENCE/ starts when
\* the pattern is tried at the fence at position i; 0 when the head of the
\* pattern does not match there.
CaptureStart(s, i) ==
  IF i + 2 <= Len(s) /\ s[i + 1] \in {"javascript", "js"} /\ s[i + 2] = NL THEN i + 3
  ELSE IF i + 1 <= Len(s) /\ s[i + 1] = NL THEN i + 2
  ELSE 0

\* The position of the first fence at or after position c; 0 when there is none.
RECURSIVE NextFence(_, _)
NextFence(s, c) ==
  IF c > Len(s) THEN 0
  ELSE IF s[c] = Fence THEN c ELSE NextFence(s, c + 1)

\* enhancedCode.match(codeBlockRegex): the leftmost match, with the lazy capture
\* group ending at the first fence after its start.
RECURSIVE RegexMatch(_, _)
RegexMatch(s, i) ==
  IF i > Len(s) THEN [found |-> FALSE, group |-> << >>]
  ELSE IF s[i] = Fence /\ CaptureStart(s, i) # 0 /\ NextFence(s, CaptureStart(s, i)) # 0
    THEN [found |-> TRUE,
          group |-> SubSeq(s, CaptureStart(s, i), NextFence(s, CaptureStart(s, i)) - 1)]
    ELSE RegexMatch(s, i + 1)

\* "Extract code from markdown code blocks if present"
ExtractCode(response) ==
  IF IncludesFence(response)
    THEN LET match == RegexMatch(response, 1)
         IN IF match.found /\ match.group # << >> THEN Trim(match.group) ELSE response
    ELSE response

----------------------------------------------------------------------------
(* Inputs: the recorded actions, their contexts, the generated code and     *)
(* the backend's responses.                                                 *)

Actions ==
  { [name |-> "click", selector |-> "#a"],
    [name |-> "click", selector |-> "#b"],
    [name |-> "fill",  selector |-> "#a"],
    [name |-> "fill",  selector |-> "#b"],
    [name |-> "press", selector |-> "#a"] }

StartTimes == {1000, 2000}

FramePaths == { << >> }

Codes == { <<"a">>, <<"b">> }

\* The calls made on a CodegenEnhancer, which treats every kind alike.
CodegenActions ==
  { [name |-> "click", selector |-> "#a"],
    [name |-> "click", selector |-> "#b"],
    [name |-> "fill",  selector |-> "#a"] }

CodegenCodes == { <<"a">> }

\* The backend's responses: bare code, a block tagged js, nothing, code inside
\* white space, and a block tagged typescript.
Responses ==
  { <<"x">>,
    <<Fence, "js", NL, "y", NL, Fence>>,
    << >>,
    <<NL, "x", Blank>>,
    <<Fence, "typescript", NL, "y", NL, Fence>> }

\* The responses given to the per-action requests of a state machine.  The
\* machine with the debounce timers is given the first two only, and the
\* machines that follow the Action object the first.
ResponsesOf(m) ==
  IF m = "llmEnhancer" THEN { <<"x">>, <<Fence, "js", NL, "y", NL, Fence>> }
  ELSE IF m \in {"payload", "codegenPayload"} THEN { <<"x">> }
  ELSE Responses

----------------------------------------------------------------------------
(* Keys.                                                                    *)

\* ${action.name}_${actionContext.startTime}
ActionKey(name, startTime) == <<name, "_", startTime>>

\* A key that also tells the payloads of two actions apart.
KeyOf_payload(action, startTime) == <<action.name, "_", action.selector, "_", startTime>>

\* const actionKey = `${action.name}_${actionContext.startTime}`
KeyOf(action, startTime) == ActionKey(action.name, startTime)

\* framePath.join('_')
RECURSIVE Join(_)
Join(path) ==
  IF path = << >> THEN << >>
  ELSE IF Len(path) = 1 THEN path
  ELSE <<Head(path), "_">> \o Join(Tail(path))

\* fill_${framePath}_${fillAction.selector}, press_${framePath}_${pressAction.selector}
ElementKey(kind, framePath, selector) == <<kind, "_">> \o Join(framePath) \o <<"_", selector>>

\* Debouncing of fill only.
IsDebounced_fillOnly(name) == name = "fill"

\* The kinds that enhanceWithLLM of llmEnhancer.ts answers at once and debounces.
IsDebounced(name) == name \in {"fill", "press"}

\* The key of the request that a check of the given kind dispatches.
CompleteKey(kind, startTime) ==
  IF kind = "fill" THEN ActionKey("fill_complete", startTime)
  ELSE ActionKey("press_complete", startTime)

Threshold(kind) == IF kind = "fill" THEN FILL_ACTION_THRESHOLD ELSE PRESS_ACTION_THRESHOLD

----------------------------------------------------------------------------
(* Promises and what a caller observes.                                     *)

Invocations(key) == IF MapHas(invocations, key) THEN invocations[key] ELSE 0

\* The id of a request promise of a key that is in the given state, 0 when
\* there is none.
Settled(key, state) ==
  IF \E p \in 1..Len(promises) : promises[p].key = key /\ promises[p].state = state
    THEN CHOOSE p \in 1..Len(promises) : promises[p].key = key /\ promises[p].state = state
    ELSE 0

\* A request that calls the backend a second time.
Invoke_retry(key) == Invocations(key) + 2

\* "await model.invoke([...])", the one place of a request where the backend
\* is called: the count of the key after it.
Invoke(key) == Invocations(key) + 1

\* A cache that is never found to hold the key.
CacheHas_never(key) == FALSE

\* processedActionCache.has(actionKey)
CacheHas(key) == MapHas(processedActionCache, key)

\* A pending table that is never found to hold the key.
PendingHas_never(key) == FALSE

\* pendingRequests.has(actionKey)
PendingHas(key) == MapHas(pendingRequests, key)

\* The request promise that performLLMRequest() or the completion closure
\* returns: created pending, after the synchronous part up to model.invoke.
NewPromise(key, kind, elementKey, code) ==
  [key |-> key, kind |-> kind, elementKey |-> elementKey, code |-> code,
   state |-> "pending", response |-> << >>, value |-> << >>, reason |-> "none"]

\* What a call of an async function returns to its caller.  An async function
\* that returns a promise settles as that promise settles; one that returns a
\* string is fulfilled with it.
ReturnValue(c, v) == [c EXCEPT !.promise = 0, !.value = v]

ReturnPromise(c, p) == [c EXCEPT !.promise = p]

\* The state of the promise a caller holds: "pending", "fulfilled" or "rejected".
Outcome(c) == IF c.promise = 0 THEN "fulfilled" ELSE promises[c.promise].state

\* The string a caller is given once its promise is fulfilled.
Result(c) == IF c.promise = 0 THEN c.value ELSE promises[c.promise].value

----------------------------------------------------------------------------
(* The Action object that a caller hands to the pipeline, and the prompt    *)
(* that a dispatch builds from it.                                          *)

\* The fields of targetInfo that the Element Information block prints, and
\* the fields of targetInfo.paths that it prints.
SummaryKeys == {"tagName", "elementClasses", "elementAttributes"}

PathKeys == {"xpath", "fullXPath", "jsPath", "outerHTML"}

\* An object that targetInfo refers to: its own keys beside "paths", and
\* whether it has the key "paths".  Every such object refers to the one paths
\* object there is, since a spread copies the reference.
TargetInfo(keys, paths) == [keys |-> keys, paths |-> paths]

\* The caller's Action object: whether it has the key "position", the object
\* its key "targetInfo" refers to (0 when it has no such key), the targetInfo
\* objects created so far, and the keys of the paths object.
ActionObject(name, position, targetInfo, keys, hasPaths, paths) ==
  [name |-> name, position |-> position, targetInfo |-> targetInfo,
   infos |-> <<TargetInfo(keys, hasPaths)>>, paths |-> paths]

\* The Action objects of the recorder: a click may carry a position; the
\* element data is absent, or present without paths, with every path, with
\* one path, or with paths of which none is printed.
ActionObjects ==
  { ActionObject(np[1], np[2], info[1], info[2], info[3], info[4]) :
      np \in {<<"click", TRUE>>, <<"click", FALSE>>, <<"fill", FALSE>>, <<"press", FALSE>>},
      info \in { <<0, {}, FALSE, {}>>,
                 <<1, {"tagName", "elementDimensions"}, FALSE, {}>>,
                 <<1, {"tagName", "elementClasses", "elementAttributes", "elementDimensions"},
                   TRUE, PathKeys>>,
                 <<1, {"tagName"}, TRUE, {"xpath"}>>,
                 <<1, {"tagName", "elementDimensions"}, TRUE, {"xpath", "cssPath"}>>,
                 <<1, {"tagName"}, TRUE, {"cssPath"}>> } }

\* The keys of an Action object and of the objects it refers to, each with
\* the keys that lead to it.
KeysOf(o) ==
  {<<"name">>, <<"selector">>}
    \cup (IF o.position THEN {<<"position">>} ELSE {})
    \cup (IF o.targetInfo = 0 THEN {}
          ELSE {<<"targetInfo">>}
                 \cup {<<"targetInfo", k>> : k \in o.infos[o.targetInfo].keys}
                 \cup (IF o.infos[o.targetInfo].paths
                         THEN {<<"targetInfo", "paths">>}
                                \cup {<<"targetInfo", "paths", k>> : k \in o.paths}
                         ELSE {}))

\* JSON.stringify(action_modified, null, 2): the keys of the JSON text.
Stringify(o) == KeysOf(o)

\* elementPaths.xpath || elementPaths.fullXPath || elementPaths.jsPath ||
\* elementPaths.outerHTML, where elementPaths is targetInfo.paths || {}
HasElementPaths(o) ==
  /\ o.targetInfo # 0
  /\ o.infos[o.targetInfo].paths
  /\ o.paths \cap PathKeys # {}

\* A removal of the position that leaves the object as it is.
DeletePosition_keep(o) == o

\* if ('position' in action_modified) delete action_modified['position']
DeletePosition(o) == [o EXCEPT !.position = FALSE]

\* "Remove data from action_modified that's already in elementContext":
\* targetInfoCopy is a shallow copy, so the keys of paths are deleted from the
\* paths object itself, and action_modified.targetInfo is deleted or set to
\* the copy.
RemoveSurfaced(o) ==
  LET paths == o.paths \ PathKeys
      targetInfoCopy == TargetInfo(o.infos[o.targetInfo].keys \ SummaryKeys, paths # {})
  IN [o EXCEPT !.paths = paths,
               !.infos = Append(@, targetInfoCopy),
               !.targetInfo = IF targetInfoCopy.keys = {} /\ ~targetInfoCopy.paths
                                THEN 0 ELSE Len(o.infos) + 1]

\* The direct dispatch of enhanceWithLLM and of
\* CodegenEnhancer.enhanceActionWithLLM, from "let action_modified = action"
\* to the serialization: action_modified is the caller's object.
action_modified(o) ==
  IF HasElementPaths(DeletePosition(o)) THEN RemoveSurfaced(DeletePosition(o))
  ELSE DeletePosition(o)

\* const actionToProcess = { ...fillAction, name: 'fill_complete' } and the
\* same for press, with the position deleted from the copy.
actionToProcess(o) == DeletePosition([o EXCEPT !.name = "complete"])

\* The record kept of a call or of a completion dispatch: what was done, the
\* keys of the caller's object before and after, the keys of the JSON body of
\* the prompt, and whether the prompt has the Element Information block.
Prepared(way, before, after, actionData, elementContext) ==
  [way |-> way, before |-> KeysOf(before), after |-> KeysOf(after),
   actionData |-> actionData, elementContext |-> elementContext]

PayloadModules == {"payload", "codegenPayload"}

----------------------------------------------------------------------------
(* llmEnhancer.ts: the per-action pipeline.                                 *)

\* The record kept of a call: its arguments, the number of calls made before
\* it, and what the module's maps and the backend counter held for its key
\* when it was made.
CallRecord(code, action, startTime, key) ==
  [action |-> action, startTime |-> startTime, code |-> code, key |-> key,
   seq |-> ncalls, promise |-> 0, value |-> << >>,
   resolved |-> Settled(key, "fulfilled"),
   inflight |-> Settled(key, "pending"),
   cachedKeys |-> DOMAIN processedActionCache,
   pendingKeys |-> DOMAIN pendingRequests,
   invBefore |-> Invocations(key), invAfter |-> Invocations(key)]

\* setTimeout(() => processFillActionIfLast(...), FILL_ACTION_THRESHOLD) and the
\* same for press: the check with the arguments its closure captured.  Once
\* the check has run the record tells whether its occurrence was then the
\* latest on its element, what the check found, the completion key it
\* computed, and whether the completion key of the occurrence's own start time
\* was cached or pending.
NewTimer(kind, elementKey, action, code, startTime) ==
  [kind |-> kind, elementKey |-> elementKey, action |-> action, code |-> code,
   startTime |-> startTime, at |-> now, due |-> now + Threshold(kind),
   opens |-> \A k \in 1..Len(timers) : timers[k].elementKey = elementKey => timers[k].fired,
   fired |-> FALSE, dispatched |-> 0, latest |-> FALSE, found |-> "none", key |-> << >>,
   ownKeyKnown |-> FALSE]

\* The cache check, the pending check and the dispatch of a request, as
\* enhanceWithLLM and CodegenEnhancer.enhanceActionWithLLM both do them.
CacheJoinOrDispatch(code, action, startTime) ==
  LET key == KeyOf(action, startTime)
      c == CallRecord(code, action, startTime, key)
  IN IF CacheHas(key)
       THEN /\ calls' = calls \cup {ReturnValue(c, processedActionCache[key])}
            /\ UNCHANGED <<pendingRequests, promises, invocations>>
     ELSE IF PendingHas(key)
       THEN /\ calls' = calls \cup {ReturnPromise(c, pendingRequests[key])}
            /\ UNCHANGED <<pendingRequests, promises, invocations>>
     ELSE /\ promises' = Append(promises, NewPromise(key, "direct", << >>, code))
          /\ invocations' = MapSet(invocations, key, Invoke(key))
          /\ pendingRequests' = MapSet(pendingRequests, key, Len(promises) + 1)
          /\ calls' = calls \cup {[ReturnPromise(c, Len(promises) + 1)
                                       EXCEPT !.invAfter = Invocations(key) + 1]}

\* The answer to a fill or press occurrence: the tracker entry is overwritten,
\* a check is scheduled and the generated code is returned.
Debounce(code, action, startTime, framePath) ==
  LET elementKey == ElementKey(action.name, framePath, action.selector)
      entry == [timestamp |-> now,
                actionContext |-> [startTime |-> startTime, framePath |-> framePath]]
      c == CallRecord(code, action, startTime, ActionKey(action.name, startTime))
  IN /\ IF action.name = "fill"
          THEN /\ fillActionsTracker' = MapSet(fillActionsTracker, elementKey, entry)
               /\ UNCHANGED pressActionsTracker
          ELSE /\ pressActionsTracker' = MapSet(pressActionsTracker, elementKey, entry)
               /\ UNCHANGED fillActionsTracker
     /\ timers' = Append(timers, NewTimer(action.name, elementKey, action, code, startTime))
     /\ calls' = calls \cup {ReturnValue(c, code)}
     /\ UNCHANGED <<processedActionCache, pendingRequests, promises, invocations>>

enhanceWithLLM(code, action, startTime, framePath) ==
  /\ module = "llmEnhancer"
  /\ ncalls < MaxCalls
  /\ ncalls' = ncalls + 1
  /\ IF IsDebounced(action.name)
       THEN Debounce(code, action, startTime, framePath)
       ELSE /\ CacheJoinOrDispatch(code, action, startTime)
            /\ UNCHANGED <<processedActionCache, fillActionsTracker,
                           pressActionsTracker, timers>>
  /\ UNCHANGED <<payloadVars, scriptCacheVars, configVars, providerVars, generatorVars, module, now, scriptCalls, scriptEnhancer>>

\* The check of timer i finds its occurrence final and its completion key
\* neither cached nor pending.
IsLast(t, tracker) ==
  /\ MapHas(tracker, t.elementKey)
  /\ now - tracker[t.elementKey].timestamp >= Threshold(t.kind)

\* A timer callback runs when its delay has passed; timers of one delay run in
\* the order they were scheduled.
TimerReady(i, kind) ==
  /\ i \in 1..Len(timers)
  /\ timers[i].kind = kind
  /\ ~timers[i].fired
  /\ now >= timers[i].due
  /\ \A j \in 1..(i - 1) : timers[j].kind = kind => timers[j].fired

\* What a check finds, in the order of its tests: no tracker entry, an entry
\* younger than the quiet period, the completion key cached, the key pending,
\* or nothing of these, and then it dispatches.
Found(t, tracker) ==
  IF ~MapHas(tracker, t.elementKey) THEN "noEntry"
  ELSE IF ~IsLast(t, tracker) THEN "superseded"
  ELSE IF CacheHas(CompleteKey(t.kind, tracker[t.elementKey].actionContext.startTime))
    THEN "cached"
  ELSE IF PendingHas(CompleteKey(t.kind, tracker[t.elementKey].actionContext.startTime))
    THEN "pending"
  ELSE "dispatched"

\* The timer record after its check has run.
Fired(i, tracker) ==
  LET t == timers[i]
  IN [t EXCEPT !.fired = TRUE,
               !.latest = \A k \in (i + 1)..Len(timers) : timers[k].elementKey # t.elementKey,
               !.found = Found(t, tracker),
               !.key = IF IsLast(t, tracker)
                         THEN CompleteKey(t.kind, tracker[t.elementKey].actionContext.startTime)
                         ELSE << >>,
               !.ownKeyKnown = \/ CacheHas(CompleteKey(t.kind, t.startTime))
                               \/ PendingHas(CompleteKey(t.kind, t.startTime))]

\* The body shared by processFillActionIfLast and processPressActionIfLast, up
\* to "await requestPromise".
CheckIfLast(i, tracker) ==
  LET t == timers[i]
      key == CompleteKey(t.kind, tracker[t.elementKey].actionContext.startTime)
  IN IF IsLast(t, tracker) /\ ~CacheHas(key) /\ ~PendingHas(key)
       THEN /\ promises' = Append(promises, NewPromise(key, t.kind, t.elementKey, t.code))
            /\ invocations' = MapSet(invocations, key, Invoke(key))
            /\ pendingRequests' = MapSet(pendingRequests, key, Len(promises) + 1)
            /\ timers' = [timers EXCEPT ![i] = [Fired(i, tracker) EXCEPT
                                                  !.dispatched = Len(promises) + 1]]
            /\ prepared' = IF module \in PayloadModules
                              THEN Append(prepared,
                                     Prepared("completion", objects, objects,
                                              Stringify(actionToProcess(objects)),
                                              HasElementPaths(actionToProcess(objects))))
                              ELSE prepared
       ELSE /\ timers' = [timers EXCEPT ![i] = Fired(i, tracker)]
            /\ UNCHANGED <<promises, invocations, pendingRequests, prepared>>

processFillActionIfLast(i) ==
  /\ module \in {"llmEnhancer", "javascript", "payload"}
  /\ TimerReady(i, "fill")
  /\ CheckIfLast(i, fillActionsTracker)
  /\ UNCHANGED <<objects, scriptCacheVars, configVars, providerVars, generatorVars, module, now, processedActionCache, fillActionsTracker,
                 pressActionsTracker, calls, ncalls, scriptCalls, scriptEnhancer>>

processPressActionIfLast(i) ==
  /\ module \in {"llmEnhancer", "javascript", "payload"}
  /\ TimerReady(i, "press")
  /\ CheckIfLast(i, pressActionsTracker)
  /\ UNCHANGED <<objects, scriptCacheVars, configVars, providerVars, generatorVars, module, now, processedActionCache, fillActionsTracker,
                 pressActionsTracker, calls, ncalls, scriptCalls, scriptEnhancer>>

\* A cache insertion that keeps nothing but the entry it stores.
CacheSet_only(key, enhancedCode) == [x \in {key} |-> enhancedCode]

\* processedActionCache.set(actionKey, enhancedCode)
CacheSet(key, enhancedCode) == MapSet(processedActionCache, key, enhancedCode)

\* A removal that empties the pending table.
PendingDelete_clear(key) == EmptyMap

\* pendingRequests.delete(actionKey)
PendingDelete(key) == MapDelete(pendingRequests, key)

\* The continuation of a request after "await model.invoke(...)" returned a
\* response: extraction, cache insertion, removal of the pending entry and,
\* for a completion request, removal of the tracker entry.
RequestFulfilled(p, response) ==
  LET r == promises[p]
      enhancedCode == ExtractCode(response)
  IN /\ processedActionCache' = CacheSet(r.key, enhancedCode)
     /\ pendingRequests' = PendingDelete(r.key)
     /\ fillActionsTracker' = IF r.kind = "fill"
                                THEN MapDelete(fillActionsTracker, r.elementKey)
                                ELSE fillActionsTracker
     /\ pressActionsTracker' = IF r.kind = "press"
                                 THEN MapDelete(pressActionsTracker, r.elementKey)
                                 ELSE pressActionsTracker
     /\ promises' = [promises EXCEPT ![p].state = "fulfilled", ![p].response = response,
                                     ![p].value = enhancedCode]

\* The pending entry of a direct request whose backend call failed: the
\* rejection leaves performLLMRequest, whose body has no handler that touches
\* the map, and the catch block of the caller has already been left.
PendingAfterDirectFailure(key) == pendingRequests

\* model.invoke threw or rejected with the given value.  A direct request
\* promise is rejected with it.  A
\* completion request is awaited inside a try block of the check, whose catch
\* block removes the pending entry and the tracker entry.
RequestRejected(p, error) ==
  LET r == promises[p]
  IN /\ pendingRequests' = IF r.kind = "direct"
                             THEN PendingAfterDirectFailure(r.key)
                             ELSE MapDelete(pendingRequests, r.key)
     /\ fillActionsTracker' = IF r.kind = "fill"
                                THEN MapDelete(fillActionsTracker, r.elementKey)
                                ELSE fillActionsTracker
     /\ pressActionsTracker' = IF r.kind = "press"
                                 THEN MapDelete(pressActionsTracker, r.elementKey)
                                 ELSE pressActionsTracker
     /\ promises' = [promises EXCEPT ![p].state = "rejected", ![p].reason = error]
     /\ UNCHANGED processedActionCache

\* Promise.all(promises) over the snapshot of the pending table, as the
\* promises stand: rejected as soon as one of them is rejected, resolved when
\* all of them are fulfilled.
PromiseAll(snapshot, proms) ==
  IF \E p \in snapshot : proms[p].state = "rejected" THEN "rejected"
  ELSE IF \A p \in snapshot : proms[p].state = "fulfilled" THEN "resolved"
  ELSE "waiting"

\* The reactions of the barriers to the settlement of a request promise: a
\* waiting barrier settles as Promise.all settles.  The record keeps which
\* promises of its snapshot were unsettled at that moment.
SettleBarriers(proms) ==
  [i \in 1..Len(scriptCalls) |->
     IF scriptCalls[i].barrier = "waiting" /\ PromiseAll(scriptCalls[i].snapshot, proms) # "waiting"
       THEN [scriptCalls[i] EXCEPT
               !.barrier = PromiseAll(scriptCalls[i].snapshot, proms),
               !.unsettledAtBarrier = {p \in scriptCalls[i].snapshot : proms[p].state = "pending"}]
       ELSE scriptCalls[i]]

\* What model.invoke rejects with: an Error object, or a string.  The
\* machines that do not look at the value are given the Error only.
ThrownOf(m) == IF m = "javascript" THEN {"Error", "string"} ELSE {"Error"}

\* JavaScriptFormatter.add(text): text.trim()
Format(text) == Trim(text)

\* wrapWithStep(description, body)
wrapWithStep(description, body) ==
  IF description # ""
    THEN <<"await test.step(", description, NL>> \o body \o <<NL, "});">>
    ELSE body

\* process.stdout.write(chunk) throws a TypeError when chunk is neither a
\* string nor a Buffer nor a Uint8Array.
WriteThrows(chunk) == chunk # "string"

\* generateAction after "await enhanceWithLLM(...)": with the enhanced code,
\* or in the catch block, where the error is written to stdout before the
\* generated code is used.
GenerateActionContinues(g, proms) ==
  LET r == proms[g.awaited]
  IN IF r.state = "fulfilled"
       THEN [g EXCEPT !.pc = "done", !.outcome = "fulfilled",
                      !.emitted = Format(wrapWithStep(g.description, r.value))]
     ELSE IF WriteThrows(r.reason)
       THEN [g EXCEPT !.pc = "done", !.outcome = "rejected"]
     ELSE [g EXCEPT !.pc = "done", !.outcome = "fulfilled",
                    !.emitted = Format(wrapWithStep(g.description, g.actionCode))]

\* The reactions of the generateAction calls to the settlement of a request
\* promise.
SettleGenerated(proms) ==
  [i \in 1..Len(generated) |->
     IF generated[i].pc = "awaiting" /\ proms[generated[i].awaited].state # "pending"
       THEN GenerateActionContinues(generated[i], proms)
       ELSE generated[i]]

BackendResponds(p, response) ==
  /\ module \in {"llmEnhancer", "codegenEnhancer", "javascript"} \cup PayloadModules
  /\ p \in 1..Len(promises)
  /\ promises[p].state = "pending"
  /\ RequestFulfilled(p, response)
  /\ scriptCalls' = SettleBarriers(promises')
  /\ generated' = SettleGenerated(promises')
  /\ UNCHANGED <<payloadVars, scriptCacheVars, configVars, providerVars, useEnhancer, module, now, timers, calls, ncalls,
                 invocations, scriptEnhancer>>

BackendFails(p, error) ==
  /\ module \in {"llmEnhancer", "codegenEnhancer", "javascript"} \cup PayloadModules
  /\ p \in 1..Len(promises)
  /\ promises[p].state = "pending"
  /\ RequestRejected(p, error)
  /\ scriptCalls' = SettleBarriers(promises')
  /\ generated' = SettleGenerated(promises')
  /\ UNCHANGED <<payloadVars, scriptCacheVars, configVars, providerVars, useEnhancer, module, now, timers, calls, ncalls,
                 invocations, scriptEnhancer>>

\* Time passes.  The clock is read only to stamp an occurrence and to run a
\* check, so it is advanced only while a check is scheduled; a check whose
\* delay has passed runs before the clock advances again.
Tick ==
  /\ module \in {"llmEnhancer", "javascript", "payload"}
  /\ now < MaxTicks * Granule
  /\ \E i \in 1..Len(timers) : ~timers[i].fired
  /\ \A i \in 1..Len(timers) : ~timers[i].fired => now < timers[i].due
  /\ now' = now + Granule
  /\ UNCHANGED <<payloadVars, scriptCacheVars, configVars, providerVars, generatorVars, module, processedActionCache, pendingRequests, fillActionsTracker,
                 pressActionsTracker, promises, timers, calls, ncalls, invocations,
                 scriptCalls, scriptEnhancer>>

----------------------------------------------------------------------------
(* codegenEnhancer.ts: one CodegenEnhancer with an action enhancer.         *)

\* CodegenEnhancer.enhanceActionWithLLM: every kind takes the cache, join or
\* dispatch path; this file has no debouncing.
enhanceActionWithLLM(code, action, startTime) ==
  /\ module = "codegenEnhancer"
  /\ ncalls < MaxCalls
  /\ ncalls' = ncalls + 1
  /\ CacheJoinOrDispatch(code, action, startTime)
  /\ UNCHANGED <<payloadVars, scriptCacheVars, configVars, providerVars, generatorVars, module, now, processedActionCache, fillActionsTracker,
                 pressActionsTracker, timers, scriptCalls, scriptEnhancer>>

\* The values of a map.
Values(m) == {m[k] : k \in DOMAIN m}

\* The record kept of an enhanceCompleteScript call.
ScriptCall(script) ==
  [script |-> script, snapshot |-> {}, barrier |-> "none", unsettledAtBarrier |-> {},
   inflightAtInvoke |-> {}, pc |-> "invoking", outcome |-> "pending",
   backend |-> "invoked", response |-> << >>, result |-> << >>]

\* CodegenEnhancer.waitForPendingRequests, up to its settlement or its await:
\* returns at once when the pending table is empty, else awaits Promise.all of
\* the promises the table holds now.
waitForPendingRequests(sc) ==
  IF DOMAIN pendingRequests = {}
    THEN [sc EXCEPT !.pc = "barrier", !.backend = "none", !.barrier = "resolved"]
    ELSE [sc EXCEPT !.pc = "barrier", !.backend = "none",
                    !.snapshot = Values(pendingRequests),
                    !.barrier = PromiseAll(Values(pendingRequests), promises),
                    !.unsettledAtBarrier =
                       IF PromiseAll(Values(pendingRequests), promises) = "waiting" THEN {}
                       ELSE {p \in Values(pendingRequests) : promises[p].state = "pending"}]

\* A catch block that throws the error on.
ScriptCatch_rethrow(sc) == [sc EXCEPT !.pc = "done", !.outcome = "rejected"]

\* The catch block of enhanceCompleteScript: "Fall back to original script if
\* there's an error".
ScriptCatch(sc) == [sc EXCEPT !.pc = "done", !.outcome = "fulfilled", !.result = sc.script]

\* A return statement of enhanceCompleteScript.
ScriptReturn(sc, text) == [sc EXCEPT !.pc = "done", !.outcome = "fulfilled", !.result = text]

\* CodegenEnhancer.enhanceCompleteScript, up to "await this.waitForPendingRequests()".
codegenEnhanceCompleteScript(script) ==
  /\ module = "codegenEnhancer"
  /\ Len(scriptCalls) < MaxScriptCalls
  /\ scriptCalls' = Append(scriptCalls, waitForPendingRequests(ScriptCall(script)))
  /\ UNCHANGED <<payloadVars, scriptCacheVars, configVars, providerVars, generatorVars, module, now, processedActionCache, pendingRequests, fillActionsTracker,
                 pressActionsTracker, promises, timers, calls, ncalls, invocations,
                 scriptEnhancer>>

\* CodegenEnhancer.enhanceCompleteScript after the barrier settled: a rejected
\* barrier is caught; else the script is returned when no script enhancer is
\* configured, or the whole-script backend call is issued.
AfterBarrier(i) ==
  /\ module = "codegenEnhancer"
  /\ i \in 1..Len(scriptCalls)
  /\ scriptCalls[i].pc = "barrier"
  /\ scriptCalls[i].barrier \in {"resolved", "rejected"}
  /\ scriptCalls' =
       [scriptCalls EXCEPT ![i] =
          IF @.barrier = "rejected" THEN ScriptCatch(@)
          ELSE IF ~scriptEnhancer THEN ScriptReturn(@, @.script)
          ELSE [@ EXCEPT !.pc = "invoking", !.backend = "invoked",
                         !.inflightAtInvoke =
                            {p \in 1..Len(promises) : promises[p].state = "pending"}]]
  /\ UNCHANGED <<payloadVars, scriptCacheVars, configVars, providerVars, generatorVars, module, now, processedActionCache, pendingRequests, fillActionsTracker,
                 pressActionsTracker, promises, timers, calls, ncalls, invocations,
                 scriptEnhancer>>

\* The whole-script backend call of a CodegenEnhancer returned a response.
codegenScriptResponds(i, response) ==
  /\ module = "codegenEnhancer"
  /\ i \in 1..Len(scriptCalls)
  /\ scriptCalls[i].pc = "invoking"
  /\ scriptCalls' = [scriptCalls EXCEPT ![i] =
                       ScriptReturn([@ EXCEPT !.backend = "responded", !.response = response],
                                    ExtractCode(response))]
  /\ UNCHANGED <<payloadVars, scriptCacheVars, configVars, providerVars, generatorVars, module, now, processedActionCache, pendingRequests, fillActionsTracker,
                 pressActionsTracker, promises, timers, calls, ncalls, invocations,
                 scriptEnhancer>>

----------------------------------------------------------------------------
(* llmEnhancer.ts: enhanceCompleteScript and its safety check.              *)

Click == ".click("
Fill == ".fill("
Goto == ".goto("

\* (script.match(/\.click\(/g) || []).length and the same for the other two
RECURSIVE CountMatches(_, _)
CountMatches(script, op) ==
  IF script = << >> THEN 0
  ELSE (IF Head(script) = op THEN 1 ELSE 0) + CountMatches(Tail(script), op)

countPlaywrightOperations(script) ==
  [clicks |-> CountMatches(script, Click),
   fills |-> CountMatches(script, Fill),
   navigations |-> CountMatches(script, Goto)]

\* A check that also turns down a rewrite with exactly nine tenths of the count.
MissingOperations_inclusive(enhanced, original) == 10 * enhanced <= 9 * original

\* enhanced < original * 0.9 on two counts.  The counts are integers far
\* below 2^53 and 0.9 is the double nearest to nine tenths: the product is
\* exact when original is a multiple of ten, and otherwise lies within a
\* rounding error of a number that is at least a tenth away from every
\* integer, so the comparison decides as 10 * enhanced < 9 * original does.
MissingOperations(enhanced, original) == 10 * enhanced < 9 * original

\* "If significant operations are missing, fall back to original"
SafetyCheck(completeScript, enhancedScript) ==
  LET originalOperations == countPlaywrightOperations(completeScript)
      enhancedOperations == countPlaywrightOperations(enhancedScript)
  IN IF \/ MissingOperations(enhancedOperations.clicks, originalOperations.clicks)
        \/ MissingOperations(enhancedOperations.fills, originalOperations.fills)
        \/ MissingOperations(enhancedOperations.navigations, originalOperations.navigations)
       THEN completeScript
       ELSE enhancedScript

\* enhanceCompleteScript of llmEnhancer.ts, up to "await model.invoke(...)".
enhanceCompleteScript(script) ==
  /\ module = "llmEnhancerScript"
  /\ Len(scriptCalls) < MaxScriptCalls
  /\ scriptCalls' = Append(scriptCalls, ScriptCall(script))
  /\ UNCHANGED <<payloadVars, scriptCacheVars, configVars, providerVars, generatorVars, module, now, processedActionCache, pendingRequests, fillActionsTracker,
                 pressActionsTracker, promises, timers, calls, ncalls, invocations,
                 scriptEnhancer>>

\* The whole-script backend call of llmEnhancer.ts returned a response.
ScriptResponds(i, response) ==
  /\ module = "llmEnhancerScript"
  /\ i \in 1..Len(scriptCalls)
  /\ scriptCalls[i].pc = "invoking"
  /\ scriptCalls' = [scriptCalls EXCEPT ![i] =
                       ScriptReturn([@ EXCEPT !.backend = "responded", !.response = response],
                                    SafetyCheck(@.script, ExtractCode(response)))]
  /\ UNCHANGED <<payloadVars, scriptCacheVars, configVars, providerVars, generatorVars, module, now, processedActionCache, pendingRequests, fillActionsTracker,
                 pressActionsTracker, promises, timers, calls, ncalls, invocations,
                 scriptEnhancer>>

\* The whole-script backend call threw or rejected, in each of the files.
ScriptFails(i) ==
  /\ module \in {"llmEnhancerScript", "codegenEnhancer", "scriptCache"}
  /\ i \in 1..Len(scriptCalls)
  /\ scriptCalls[i].pc = "invoking"
  /\ scriptCalls' = [scriptCalls EXCEPT ![i] = ScriptCatch([@ EXCEPT !.backend = "failed"])]
  /\ UNCHANGED <<payloadVars, scriptCacheVars, configVars, providerVars, generatorVars, module, now, processedActionCache, pendingRequests, fillActionsTracker,
                 pressActionsTracker, promises, timers, calls, ncalls, invocations,
                 scriptEnhancer>>

\* A script with the given numbers of the three counted operations.
RECURSIVE Repeat(_, _)
Repeat(token, n) == IF n = 0 THEN << >> ELSE <<token>> \o Repeat(token, n - 1)

MkScript(clicks, fills, navigations) ==
  <<"x">> \o Repeat(Goto, navigations) \o Repeat(Click, clicks) \o Repeat(Fill, fills)

\* The scripts handed to enhanceCompleteScript of llmEnhancer.ts: any number
\* of clicks, or a few fills and navigations with or without one click.
Scripts ==
  { MkScript(c, 0, 0) : c \in 0..MaxOps }
    \cup { MkScript(c, f, n) : c \in 0..1, f \in 0..MaxFewOps, n \in 0..MaxFewOps }

\* The whole-script responses: nothing, a script as it is, a script inside
\* a fenced block, or a script inside white space.
ScriptResponses ==
  { << >> } \cup Scripts
    \cup { <<Fence, "javascript", NL>> \o r \o <<NL, Fence>> : r \in Scripts }
    \cup { <<NL>> \o MkScript(1, 0, 0) \o <<NL>> }

\* The scripts handed to a CodegenEnhancer.
CodegenScripts == { MkScript(1, 0, 0) }

----------------------------------------------------------------------------
(* llmConfig.ts: loadLLMConfig.                                             *)

MaxLoads == 2          \* loadLLMConfig calls in one behaviour

\* defaultLLMConfig as the module defines it: the fields that the environment
\* can override.
DefaultLLMConfig ==
  [ollama |-> [baseUrl |-> "http://localhost:11434", model |-> "llama3"],
   debug |-> FALSE]

\* process.env: OLLAMA_BASE_URL, OLLAMA_MODEL and PW_DEBUG_LLM; "" is unset.
Environments ==
  [OLLAMA_BASE_URL : {"", "http://env"}, OLLAMA_MODEL : {"", "Y"}, PW_DEBUG_LLM : {"", "1"}]

\* A key that an object does not have.
Absent == "absent"

\* The configuration file that is found: none, one that JSON.parse rejects,
\* or an object with some of the keys ollama.model, ollama.baseUrl and debug.
ConfigFile(state, model, baseUrl, debug) ==
  [state |-> state, model |-> model, baseUrl |-> baseUrl, debug |-> debug]

ConfigFiles ==
  { ConfigFile("none", Absent, Absent, Absent),
    ConfigFile("malformed", Absent, Absent, Absent),
    ConfigFile("parsed", "X", Absent, Absent),
    ConfigFile("parsed", Absent, "http://file", Absent),
    ConfigFile("parsed", Absent, Absent, "false"),
    ConfigFile("parsed", "X", "http://file", "true") }

\* mergeConfigs(defaultConfig, userConfig): the spread of userConfig.ollama
\* over the ollama block, key by key, and the debug flag when it is defined.
mergeConfigs(defaultConfig, userConfig) ==
  [ollama |-> [baseUrl |-> IF userConfig.baseUrl # Absent THEN userConfig.baseUrl
                           ELSE defaultConfig.ollama.baseUrl,
               model |-> IF userConfig.model # Absent THEN userConfig.model
                         ELSE defaultConfig.ollama.model],
   debug |-> IF userConfig.debug # Absent THEN userConfig.debug = "true"
             ELSE defaultConfig.debug]

\* "Override with environment variables": the assignments to config.ollama,
\* which is the object that defaultLLMConfig.ollama is, since config is a
\* shallow copy.
OverrideOllama(ollama, env) ==
  [ollama EXCEPT
     !.baseUrl = IF env.OLLAMA_BASE_URL # "" THEN env.OLLAMA_BASE_URL ELSE @,
     !.model = IF env.OLLAMA_MODEL # "" THEN env.OLLAMA_MODEL ELSE @]

\* The path that was not given, a file that cannot be read, and a file that
\* holds the JSON text "null".
AbsentPath == ConfigFile("absent", Absent, Absent, Absent)

NoFile == ConfigFile("none", Absent, Absent, Absent)

Unreadable == ConfigFile("unreadable", Absent, Absent, Absent)

NullJson == ConfigFile("null", Absent, Absent, Absent)

Malformed == ConfigFile("malformed", Absent, Absent, Absent)

\* What is at configPath, at playwright.llm.json and at
\* .playwright/llm.config.json: every kind of explicit path beside a valid
\* first default location, and no explicit path with every kind of failing
\* first location before a second one.
Sources ==
  { <<explicit, ConfigFile("parsed", "X", "http://file", "true"), NoFile>> :
      explicit \in ConfigFiles \cup {AbsentPath, Unreadable, NullJson} }
    \cup { <<AbsentPath, first, second>> :
             first \in {NoFile, Unreadable, Malformed, NullJson},
             second \in {NoFile, Malformed, ConfigFile("parsed", "X", Absent, Absent)} }

\* configPath && fs.existsSync(configPath), and fs.existsSync(location)
Exists(file) == file.state \notin {"absent", "none"}

\* A try block without its catch: what readFileSync, JSON.parse or
\* mergeConfigs throws leaves loadLLMConfig.
TryMerge_nocatch(config, file) ==
  IF file.state = "parsed"
    THEN [config |-> mergeConfigs(config, file), file |-> file, threw |-> FALSE]
    ELSE [config |-> config, file |-> NoFile, threw |-> TRUE]

\* try { userConfig = JSON.parse(fs.readFileSync(...)); config =
\* mergeConfigs(config, userConfig); } catch (error) { console.error(...) }:
\* readFileSync throws on a file that cannot be read, JSON.parse on malformed
\* text, mergeConfigs on null; config is assigned only when none of them threw.
TryMerge(config, file) ==
  IF file.state = "parsed"
    THEN [config |-> mergeConfigs(config, file), file |-> file, threw |-> FALSE]
    ELSE [config |-> config, file |-> NoFile, threw |-> FALSE]

\* The loop over defaultLocations, which ends at the first file that was merged.
DefaultLocations(config, first, second) ==
  LET r == TryMerge(config, first)
  IN IF Exists(first) /\ (r.file # NoFile \/ r.threw) THEN r
     ELSE IF Exists(second) THEN TryMerge(config, second)
     ELSE [config |-> config, file |-> NoFile, threw |-> FALSE]

\* loadLLMConfig(configPath) under the given environment and files.
loadLLMConfig(env, explicit, first, second) ==
  LET ollama == OverrideOllama(defaultLLMConfig.ollama, env)
      config == [ollama |-> ollama,
                 debug |-> IF env.PW_DEBUG_LLM = "1" THEN TRUE ELSE defaultLLMConfig.debug]
      r == IF Exists(explicit) THEN TryMerge(config, explicit)
           ELSE DefaultLocations(config, first, second)
  IN /\ module = "llmConfig"
     /\ Len(loads) < MaxLoads
     /\ defaultLLMConfig' = [defaultLLMConfig EXCEPT !.ollama = ollama]
     /\ loads' = Append(loads, [env |-> env, explicit |-> explicit, first |-> first,
                                second |-> second, file |-> r.file, before |-> config,
                                config |-> r.config,
                                outcome |-> IF r.threw THEN "threw" ELSE "returned"])
     /\ UNCHANGED <<resolved, prompts, payloadVars, scriptCacheVars, providerVars, generatorVars, module, now, processedActionCache,
                    pendingRequests, fillActionsTracker, pressActionsTracker, promises,
                    timers, calls, ncalls, invocations, scriptCalls, scriptEnhancer>>

----------------------------------------------------------------------------
(* JavaScriptLanguageGenerator.generateAction, which hands the code of the  *)
(* deterministic generator to enhanceWithLLM of llmEnhancer.ts.             *)

MaxGenerated == 2      \* generateAction calls in one behaviour

\* The recorded actions handed to the generator, one start time each.
GeneratorActions ==
  { [name |-> "click", selector |-> "#a"],
    [name |-> "fill", selector |-> "#a"],
    [name |-> "screenshot", selector |-> "#a"] }

\* actionInContext.description: none, or the title of a step.
Descriptions == { "", "step" }

\* this._generateActionCall(subject, actionInContext): the code of the
\* deterministic generator, a function of the action.
generateActionCall(action) == <<"await page.", action.name, action.selector>>

\* What "await enhanceWithLLM(actionCode, action, actionInContext)" waits for:
\* the id of the request promise the call returns, 0 when it returns a string.
Awaited(action, startTime) ==
  LET key == KeyOf(action, startTime)
  IN IF IsDebounced(action.name) \/ CacheHas(key) THEN 0
     ELSE IF PendingHas(key) THEN pendingRequests[key]
     ELSE Len(promises) + 1

\* The string that enhanceWithLLM returns when it returns one.
ReturnedString(code, action, startTime) ==
  IF IsDebounced(action.name) THEN code
  ELSE processedActionCache[KeyOf(action, startTime)]

\* The record kept of a generateAction call.
GenerateCall(action, description, startTime) ==
  [action |-> action, description |-> description, startTime |-> startTime,
   actionCode |-> generateActionCall(action), enhancer |-> useEnhancer,
   invBefore |-> Len(promises), invAfter |-> Len(promises),
   awaited |-> 0, pc |-> "done", outcome |-> "fulfilled", emitted |-> << >>]

\* generateAction(actionInContext), up to its return or to the await of a
\* request that is not settled.
generateAction(action, description, startTime) ==
  LET g == GenerateCall(action, description, startTime)
      code == g.actionCode
  IN /\ module = "javascript"
     /\ Len(generated) < MaxGenerated
     /\ IF useEnhancer /\ action.name # "screenshot"
          THEN /\ ncalls' = ncalls + 1
               /\ IF IsDebounced(action.name)
                    THEN Debounce(code, action, startTime, << >>)
                    ELSE /\ CacheJoinOrDispatch(code, action, startTime)
                         /\ UNCHANGED <<processedActionCache, fillActionsTracker,
                                        pressActionsTracker, timers>>
               /\ generated' = Append(generated,
                    LET p == Awaited(action, startTime)
                        h == [g EXCEPT !.awaited = p, !.invAfter = Len(promises')]
                    IN IF p = 0
                         THEN [h EXCEPT !.emitted =
                                 Format(wrapWithStep(description,
                                                     ReturnedString(code, action, startTime)))]
                       ELSE IF promises'[p].state = "pending"
                         THEN [h EXCEPT !.pc = "awaiting", !.outcome = "pending"]
                       ELSE GenerateActionContinues(h, promises'))
          ELSE /\ generated' = Append(generated,
                    [g EXCEPT !.emitted = Format(wrapWithStep(description, code))])
               /\ UNCHANGED <<processedActionCache, pendingRequests, fillActionsTracker,
                              pressActionsTracker, promises, timers, calls, ncalls,
                              invocations>>
     /\ UNCHANGED <<payloadVars, scriptCacheVars, configVars, providerVars, useEnhancer, module, now, scriptCalls,
                    scriptEnhancer>>

----------------------------------------------------------------------------
(* llmProvider.ts: the provider that LLMProviderFactory.createProvider      *)
(* builds for a configuration, and its generate calls.                      *)

MaxGenerates == 2      \* generate calls in one behaviour

\* LLMProviderType, and a value of config.provider that is none of them.
ProviderTypes == {"ollama", "openai", "anthropic", "azure-openai", "custom", "other"}

\* LLMProviderFactory.createProvider(config): the class of the provider.
createProvider(type) ==
  IF type \in {"openai", "anthropic", "azure-openai", "custom"} THEN type ELSE "ollama"

BuiltIn == {"ollama", "openai", "anthropic", "azure-openai"}

\* What the module at customProvider.providerModulePath is: one that exports a
\* class with a generate method, one that exports a class without it, one
\* that exports no class, or one whose import fails.
UserModules == {"provider", "noGenerate", "noExport", "importFails"}

\* constructor(config) { this.config = config; } of each of the five classes:
\* how "new XProvider(config)" ends, "returned" or "threw".
Constructor(class, block) == "returned"

\* The provider object after construction: its class, whether the
\* configuration has the block of that class, the custom provider's field
\* this.provider, and the counts of what it has done.
NewProvider(type, block, userModule) ==
  [class |-> createProvider(type), block |-> block, userModule |-> userModule,
   created |-> Constructor(createProvider(type), block),
   provider |-> "null", imports |-> 0, constructions |-> 0, contacts |-> 0]

\* The record kept of a generate call.
GenerateRecord ==
  [pc |-> "done", outcome |-> "rejected", error |-> "none", contacted |-> FALSE]

\* A test of the configuration block that only the Ollama provider makes.
ConfigMissing_ollamaOnly(p) == p.class = "ollama" /\ ~p.block

\* !this.config.ollama, !this.config.openai, !this.config.anthropic,
\* !this.config.azureOpenai, !this.config.customProvider
ConfigMissing(p) == ~p.block

\* "return this.provider.generate(messages, options)" of the custom provider,
\* and "await model.call(langchainMessages)" of a built-in one: the backend is
\* called, unless this.provider has no generate method.
Delegate(g, p) ==
  IF p.class = "custom" /\ p.provider = "noGenerate"
    THEN [g EXCEPT !.error = "TypeError"]
    ELSE [g EXCEPT !.pc = "calling", !.outcome = "pending", !.contacted = TRUE]

Contacts(g) == IF g.contacted THEN 1 ELSE 0

\* generate(messages, options), up to its first await or its throw.
generate ==
  LET g == GenerateRecord
  IN /\ module = "llmProvider"
     /\ Len(generates) < MaxGenerates
     /\ IF ConfigMissing(provider)
          THEN /\ generates' = Append(generates, [g EXCEPT !.error = "configuration is missing"])
               /\ UNCHANGED provider
        ELSE IF provider.class = "custom" /\ provider.provider = "null"
          THEN /\ generates' = Append(generates, [g EXCEPT !.pc = "importing",
                                                           !.outcome = "pending"])
               /\ provider' = [provider EXCEPT !.imports = @ + 1]
        ELSE /\ generates' = Append(generates, Delegate(g, provider))
             /\ provider' = [provider EXCEPT !.contacts = @ + Contacts(Delegate(g, provider))]
     /\ UNCHANGED <<payloadVars, scriptCacheVars, configVars, generatorVars, module, now, processedActionCache,
                    pendingRequests, fillActionsTracker, pressActionsTracker, promises,
                    timers, calls, ncalls, invocations, scriptCalls, scriptEnhancer>>

\* The custom provider's generate after "await import(...)": the class is
\* looked up, constructed and assigned to this.provider, its generate method
\* is tested, and the call is handed on; every throw becomes "Failed to load
\* custom provider".
ImportSettles(i) ==
  LET g == generates[i]
      constructed == [provider EXCEPT !.provider = provider.userModule,
                                      !.constructions = @ + 1]
  IN /\ module = "llmProvider"
     /\ i \in 1..Len(generates)
     /\ g.pc = "importing"
     /\ IF provider.userModule \in {"importFails", "noExport"}
          THEN /\ generates' = [generates EXCEPT ![i] =
                                  [g EXCEPT !.pc = "done", !.outcome = "rejected",
                                            !.error = "Failed to load custom provider"]]
               /\ UNCHANGED provider
        ELSE IF provider.userModule = "noGenerate"
          THEN /\ generates' = [generates EXCEPT ![i] =
                                  [g EXCEPT !.pc = "done", !.outcome = "rejected",
                                            !.error = "Failed to load custom provider"]]
               /\ provider' = constructed
        ELSE /\ generates' = [generates EXCEPT ![i] = Delegate(g, constructed)]
             /\ provider' = [constructed EXCEPT !.contacts = @ + 1]
     /\ UNCHANGED <<payloadVars, scriptCacheVars, configVars, generatorVars, module, now, processedActionCache,
                    pendingRequests, fillActionsTracker, pressActionsTracker, promises,
                    timers, calls, ncalls, invocations, scriptCalls, scriptEnhancer>>

\* The backend call of a generate call returned a response, or failed.
GenerateSettles(i, outcome) ==
  /\ module = "llmProvider"
  /\ i \in 1..Len(generates)
  /\ generates[i].pc = "calling"
  /\ generates' = [generates EXCEPT ![i] =
                     [@ EXCEPT !.pc = "done", !.outcome = outcome,
                               !.error = IF outcome = "rejected" THEN "backend" ELSE "none"]]
  /\ UNCHANGED <<payloadVars, scriptCacheVars, configVars, provider, generatorVars, module, now, processedActionCache,
                 pendingRequests, fillActionsTracker, pressActionsTracker, promises,
                 timers, calls, ncalls, invocations, scriptCalls, scriptEnhancer>>

----------------------------------------------------------------------------
(* llmEnhancer.ts, the configuration-driven text, and part_002:             *)
(* enhanceCompleteScript with processedScriptCache.                         *)

MaxCachedCalls == 3    \* enhanceCompleteScript calls on the script cache

\* A script of this machine is a sequence of characters.
\* str.charCodeAt(i)
charCodeAt(char) ==
  IF char = "A" THEN 65 ELSE IF char = "B" THEN 66 ELSE 97

\* Arithmetic modulo 2^32 on signed 32 bit integers, which is what "<<" and
\* "&" of the code yield; the double that "(hash << 5) - hash + char" is
\* before "hash & hash" is congruent to the sum computed here.
Two30 == 1073741824

MaxInt32 == Two30 + (Two30 - 1)

MinInt32 == (-Two30) - Two30

AddInt32(a, b) ==
  IF a >= 0 /\ b > MaxInt32 - a THEN (((a - Two30) - Two30) + b) - Two30 - Two30
  ELSE IF a < 0 /\ b < MinInt32 - a THEN (((a + Two30) + Two30) + b) + Two30 + Two30
  ELSE a + b

NegInt32(a) == IF a = MinInt32 THEN MinInt32 ELSE -a

\* hash << n
RECURSIVE ShiftLeft(_, _)
ShiftLeft(hash, n) == IF n = 0 THEN hash ELSE ShiftLeft(AddInt32(hash, hash), n - 1)

\* hashString(str): hash = ((hash << 5) - hash) + char; hash = hash & hash,
\* for every character, from 0.
RECURSIVE HashFrom(_, _)
HashFrom(hash, str) ==
  IF str = << >> THEN hash
  ELSE HashFrom(AddInt32(AddInt32(ShiftLeft(hash, 5), NegInt32(hash)), charCodeAt(Head(str))),
                Tail(str))

hashString(str) == HashFrom(0, str)

\* The scripts handed to this enhanceCompleteScript: "Aa" and "BB" have the
\* hash 2112, "AB" has the hash 2081.
CachedScripts == { <<"A", "a">>, <<"B", "B">>, <<"A", "B">> }

\* The responses of the backend to a whole script: at temperature 0.7 the
\* same script is not answered with the same text each time.
CachedResponses == { <<"x">>, <<Fence, "js", NL, "y", NL, Fence>> }

\* The earlier calls with the same script whose backend call had returned and
\* whose result had been cached.
Succeeded(script) ==
  { i \in 1..Len(scriptCalls) :
      scriptCalls[i].script = script /\ scriptCalls[i].backend = "responded" }

\* The record kept of a call: that of ScriptCall with the hash of the script,
\* whether the cache held the hash, and the calls that had succeeded.
CachedScriptCall(script) ==
  [script |-> script, snapshot |-> {}, barrier |-> "none", unsettledAtBarrier |-> {},
   inflightAtInvoke |-> {}, pc |-> "invoking", outcome |-> "pending",
   backend |-> "invoked", response |-> << >>, result |-> << >>,
   scriptHash |-> hashString(script), hit |-> FALSE, after |-> Succeeded(script)]

\* enhanceCompleteScript, up to the return of the cached script or to
\* "await model.call(...)".
cachedEnhanceCompleteScript(script) ==
  LET sc == CachedScriptCall(script)
  IN /\ module = "scriptCache"
     /\ Len(scriptCalls) < MaxCachedCalls
     /\ scriptCalls' = Append(scriptCalls,
          IF MapHas(processedScriptCache, sc.scriptHash)
            THEN ScriptReturn([sc EXCEPT !.backend = "none", !.hit = TRUE],
                              processedScriptCache[sc.scriptHash])
            ELSE sc)
     /\ UNCHANGED <<payloadVars, scriptCacheVars, configVars, providerVars, generatorVars, module, now,
                    processedActionCache, pendingRequests, fillActionsTracker,
                    pressActionsTracker, promises, timers, calls, ncalls, invocations,
                    scriptEnhancer>>

\* The backend call returned a response: extraction, processedScriptCache.set
\* and the return of the enhanced script.
cachedScriptResponds(i, response) ==
  /\ module = "scriptCache"
  /\ i \in 1..Len(scriptCalls)
  /\ scriptCalls[i].pc = "invoking"
  /\ processedScriptCache' =
       MapSet(processedScriptCache, scriptCalls[i].scriptHash, ExtractCode(response))
  /\ scriptCalls' = [scriptCalls EXCEPT ![i] =
                       ScriptReturn([@ EXCEPT !.backend = "responded", !.response = response],
                                    ExtractCode(response))]
  /\ UNCHANGED <<payloadVars, configVars, providerVars, generatorVars, module, now, processedActionCache,
                 pendingRequests, fillActionsTracker, pressActionsTracker, promises, timers,
                 calls, ncalls, invocations, scriptEnhancer>>

----------------------------------------------------------------------------
(* The pipelines of llmEnhancer.ts ("payload") and of codegenEnhancer.ts    *)
(* ("codegenPayload") called with one Action object.                        *)

\* The argument of the model's maps that stands for the object.
ActionOf(o) == [name |-> o.name, selector |-> "#a"]

\* enhanceWithLLM(generatedCode, action, actionContext) and
\* CodegenEnhancer.enhanceActionWithLLM on the caller's object: a debounced
\* kind, a cache hit and a join return before the object is touched; a
\* dispatch deletes the position, builds the prompt and calls the backend.
enhanceAction(code, startTime) ==
  LET action == ActionOf(objects)
      key == KeyOf(action, startTime)
  IN /\ module \in PayloadModules
     /\ ncalls < MaxCalls
     /\ ncalls' = ncalls + 1
     /\ IF module = "payload" /\ IsDebounced(action.name)
          THEN /\ Debounce(code, action, startTime, << >>)
               /\ prepared' = Append(prepared, Prepared("debounced", objects, objects, {}, FALSE))
               /\ UNCHANGED objects
          ELSE /\ CacheJoinOrDispatch(code, action, startTime)
               /\ UNCHANGED <<processedActionCache, fillActionsTracker,
                              pressActionsTracker, timers>>
               /\ IF CacheHas(key) \/ PendingHas(key)
                    THEN /\ prepared' = Append(prepared,
                              Prepared(IF CacheHas(key) THEN "cached" ELSE "joined",
                                       objects, objects, {}, FALSE))
                         /\ UNCHANGED objects
                    ELSE /\ objects' = action_modified(objects)
                         /\ prepared' = Append(prepared,
                              Prepared("dispatched", objects, action_modified(objects),
                                       Stringify(action_modified(objects)),
                                       HasElementPaths(DeletePosition(objects))))
     /\ UNCHANGED <<scriptCacheVars, configVars, providerVars, generatorVars, module, now,
                    scriptCalls, scriptEnhancer>>

----------------------------------------------------------------------------
(* loadLLMConfig and mergeConfigs of the text with the hosted providers     *)
(* (part_004): the provider and the blocks of the hosted backends.          *)

\* process.env: the credential variables and the variables related to them.
\* The three Azure variables are unset, set to the key alone, or all set.
HostedEnvironments ==
  { [OPENAI_API_KEY |-> a, OPENAI_MODEL |-> b, ANTHROPIC_API_KEY |-> c,
     ANTHROPIC_MODEL |-> "", AZURE_OPENAI_API_KEY |-> z[1],
     AZURE_OPENAI_ENDPOINT |-> z[2], AZURE_OPENAI_DEPLOYMENT |-> z[3]] :
      a \in {"", "sk-env"}, b \in {"", "gpt-env"}, c \in {"", "ak-env"},
      z \in { <<"", "", "">>, <<"zk-env", "", "">>, <<"zk-env", "https://env", "dep-env">> } }

\* A block of a configuration: none, or one object.
NoBlock == << >>

Block(object) == <<object>>

\* The parsed configuration file, userConfig: its provider and its blocks.
UserConfig(type, openai, anthropic, azureOpenai) ==
  [provider |-> type, openai |-> openai, anthropic |-> anthropic,
   azureOpenai |-> azureOpenai]

\* No file, files that name a provider, and files that set a block in part
\* or in whole.
UserConfigs ==
  { UserConfig(Absent, NoBlock, NoBlock, NoBlock),
    UserConfig("ollama", NoBlock, NoBlock, NoBlock),
    UserConfig("anthropic", NoBlock, NoBlock, NoBlock),
    UserConfig(Absent, Block([apiKey |-> "sk-file", model |-> Absent]), NoBlock, NoBlock),
    UserConfig("openai", Block([apiKey |-> "sk-file", model |-> "gpt-file"]), NoBlock, NoBlock),
    UserConfig(Absent, NoBlock, Block([apiKey |-> Absent, model |-> "claude-file"]), NoBlock) }

\* The fields of defaultLLMConfig that the hosted providers read.
DefaultHostedConfig ==
  [provider |-> "ollama", openai |-> NoBlock, anthropic |-> NoBlock, azureOpenai |-> NoBlock]

\* process.env.X || fallback
OrElse(value, fallback) == IF value # "" THEN value ELSE fallback

\* config.openai = config.openai || {...}
Seed(block, object) == IF block # NoBlock THEN block ELSE Block(object)

\* "Override with environment variables", for the hosted providers, in the
\* order of the code.
OverrideHosted(config, env) ==
  LET c1 == IF env.OPENAI_API_KEY # ""
              THEN [config EXCEPT
                      !.provider = "openai",
                      !.openai = Seed(@, [apiKey |-> env.OPENAI_API_KEY,
                                          model |-> OrElse(env.OPENAI_MODEL, "gpt-3.5-turbo")])]
              ELSE config
      c2 == IF env.ANTHROPIC_API_KEY # ""
              THEN [c1 EXCEPT
                      !.provider = "anthropic",
                      !.anthropic = Seed(@, [apiKey |-> env.ANTHROPIC_API_KEY,
                                             model |-> OrElse(env.ANTHROPIC_MODEL,
                                                              "claude-3-sonnet-20240229")])]
              ELSE c1
  IN IF env.AZURE_OPENAI_API_KEY # "" /\ env.AZURE_OPENAI_ENDPOINT # ""
          /\ env.AZURE_OPENAI_DEPLOYMENT # ""
       THEN [c2 EXCEPT
               !.provider = "azure-openai",
               !.azureOpenai = Seed(@, [apiKey |-> env.AZURE_OPENAI_API_KEY,
                                        endpoint |-> env.AZURE_OPENAI_ENDPOINT,
                                        deploymentName |-> env.AZURE_OPENAI_DEPLOYMENT])]
       ELSE c2

\* { ...result.block, ...userConfig.block }: the keys of the file's block over
\* the keys of the block that is there.
Spread(block, userBlock) ==
  IF userBlock = NoBlock THEN block
  ELSE Block([k \in DOMAIN userBlock[1] |->
                IF userBlock[1][k] # Absent THEN userBlock[1][k]
                ELSE IF block # NoBlock THEN block[1][k]
                ELSE Absent])

\* if (userConfig.provider) result.provider = userConfig.provider
mergeProvider(type, userConfig) ==
  IF userConfig.provider # Absent THEN userConfig.provider ELSE type

\* mergeConfigs(defaultConfig, userConfig), for the provider and the blocks of
\* the hosted providers.
mergeHosted(config, userConfig) ==
  [provider |-> mergeProvider(config.provider, userConfig),
   openai |-> Spread(config.openai, userConfig.openai),
   anthropic |-> Spread(config.anthropic, userConfig.anthropic),
   azureOpenai |-> Spread(config.azureOpenai, userConfig.azureOpenai)]

\* loadLLMConfig(configPath) of this text under the given environment, with
\* the given file found and parsed: the environment first, the file after it.
loadLLMConfigHosted(env, userConfig) ==
  /\ module = "llmConfigHosted"
  /\ Len(resolved) < MaxLoads
  /\ resolved' = Append(resolved,
       [env |-> env, userConfig |-> userConfig,
        config |-> mergeHosted(OverrideHosted(DefaultHostedConfig, env), userConfig)])
  /\ UNCHANGED <<prompts, payloadVars, scriptCacheVars, defaultLLMConfig, loads, providerVars,
                 generatorVars, module, now, processedActionCache, pendingRequests,
                 fillActionsTracker, pressActionsTracker, promises, timers, calls, ncalls,
                 invocations, scriptCalls, scriptEnhancer>>

----------------------------------------------------------------------------
(* processTemplate of the configuration (part_004) and the prompt that       *)
(* enhanceWithLLM of part_001 builds with it.                               *)

MaxPrompts == 2        \* prompts built in one behaviour

\* A template and a value are sequences of tokens.  The tokens that
\* processTemplate or String.prototype.replace treat as a unit: a placeholder
\* {{name}}, the replacement patterns "$&" (the matched text) and "$$" (a
\* dollar sign), and opaque words.
Placeholder(name) ==
  IF name = "actionData" THEN "{{actionData}}"
  ELSE IF name = "elementContext" THEN "{{elementContext}}"
  ELSE "{{generatedCode}}"

\* The variables that enhanceWithLLM passes, in the order of Object.entries.
VariableNames == <<"actionData", "elementContext", "generatedCode">>

\* The user prompt templates: the placeholders once each, a placeholder
\* twice, and no placeholder.
Templates ==
  { <<Placeholder("actionData"), NL, Placeholder("elementContext"),
      Placeholder("generatedCode")>>,
    <<Placeholder("generatedCode"), "and", Placeholder("generatedCode")>>,
    <<"t">> }

\* The values: a serialized action, which holds what the user typed, and the
\* generated code.
ActionDatas == { <<"a">>, <<Placeholder("generatedCode")>> }

GeneratedCodes == { <<"c">>, <<"$&">>, <<"c", "$$">> }

\* The text that a replacement string stands for at a match: "$&" is the
\* matched text, "$$" is "$", every other token is itself.
RECURSIVE Replacement(_, _)
Replacement(value, matched) ==
  IF value = << >> THEN << >>
  ELSE (IF Head(value) = "$&" THEN <<matched>>
        ELSE IF Head(value) = "$$" THEN <<"$">>
        ELSE <<Head(value)>>) \o Replacement(Tail(value), matched)

\* result.replace(new RegExp(`{{${key}}}`, 'g'), value)
RECURSIVE ReplaceAll(_, _, _)
ReplaceAll(text, key, value) ==
  IF text = << >> THEN << >>
  ELSE IF Head(text) = Placeholder(key)
    THEN Replacement(value, Placeholder(key)) \o ReplaceAll(Tail(text), key, value)
    ELSE <<Head(text)>> \o ReplaceAll(Tail(text), key, value)

\* processTemplate(template, variables): one replace per entry of variables,
\* each on the result of the one before.
RECURSIVE ProcessFrom(_, _, _)
ProcessFrom(result, variables, k) ==
  IF k > Len(VariableNames) THEN result
  ELSE ProcessFrom(ReplaceAll(result, VariableNames[k], variables[VariableNames[k]]),
                   variables, k + 1)

processTemplate(template, variables) == ProcessFrom(template, variables, 1)

\* const userPrompt = processTemplate(llmConfig.prompts.userPromptTemplate,
\* { actionData, elementContext, generatedCode })
buildUserPrompt(template, actionData, generatedCode) ==
  LET variables == [actionData |-> actionData, elementContext |-> << >>,
                    generatedCode |-> generatedCode]
  IN /\ module = "processTemplate"
     /\ Len(prompts) < MaxPrompts
     /\ prompts' = Append(prompts, [template |-> template, variables |-> variables,
                                    userPrompt |-> processTemplate(template, variables)])
     /\ UNCHANGED <<resolved, payloadVars, scriptCacheVars, defaultLLMConfig, loads,
                    providerVars, generatorVars, module, now, processedActionCache,
                    pendingRequests, fillActionsTracker, pressActionsTracker, promises,
                    timers, calls, ncalls, invocations, scriptCalls, scriptEnhancer>>

----------------------------------------------------------------------------

Init ==
  /\ module \in {"llmEnhancer", "llmEnhancerScript", "codegenEnhancer", "llmConfig",
                 "llmProvider", "javascript", "scriptCache", "payload", "codegenPayload",
                 "llmConfigHosted", "processTemplate"}
  /\ now = 0
  /\ processedActionCache = EmptyMap
  /\ pendingRequests = EmptyMap
  /\ fillActionsTracker = EmptyMap
  /\ pressActionsTracker = EmptyMap
  /\ promises = << >>
  /\ timers = << >>
  /\ calls = {}
  /\ ncalls = 0
  /\ invocations = EmptyMap
  /\ scriptCalls = << >>
  /\ scriptEnhancer \in (IF module = "codegenEnhancer" THEN BOOLEAN ELSE {FALSE})
  /\ defaultLLMConfig = DefaultLLMConfig
  /\ loads = << >>
  /\ provider \in (IF module = "llmProvider"
                     THEN { NewProvider(type, block, userModule) :
                              type \in ProviderTypes, block \in BOOLEAN,
                              userModule \in UserModules }
                     ELSE { NewProvider("ollama", TRUE, "provider") })
  /\ generates = << >>
  /\ useEnhancer \in (IF module = "javascript" THEN BOOLEAN ELSE {FALSE})
  /\ generated = << >>
  /\ processedScriptCache = EmptyMap
  /\ objects \in (IF module \in PayloadModules THEN ActionObjects
                   ELSE { ActionObject("click", FALSE, 0, {}, FALSE, {}) })
  /\ prepared = << >>
  /\ resolved = << >>
  /\ prompts = << >>

Next ==
  \/ \E code \in Codes, action \in Actions, startTime \in StartTimes, framePath \in FramePaths :
       enhanceWithLLM(code, action, startTime, framePath)
  \/ \E i \in 1..Len(timers) : processFillActionIfLast(i)
  \/ \E i \in 1..Len(timers) : processPressActionIfLast(i)
  \/ \E p \in 1..Len(promises), response \in ResponsesOf(module) : BackendResponds(p, response)
  \/ \E p \in 1..Len(promises), error \in ThrownOf(module) : BackendFails(p, error)
  \/ Tick
  \/ \E code \in CodegenCodes, action \in CodegenActions, startTime \in StartTimes :
       enhanceActionWithLLM(code, action, startTime)
  \/ \E script \in CodegenScripts : codegenEnhanceCompleteScript(script)
  \/ \E i \in 1..Len(scriptCalls) : AfterBarrier(i)
  \/ \E i \in 1..Len(scriptCalls), response \in Responses : codegenScriptResponds(i, response)
  \/ \E script \in Scripts : enhanceCompleteScript(script)
  \/ \E i \in 1..Len(scriptCalls), response \in ScriptResponses : ScriptResponds(i, response)
  \/ \E i \in 1..Len(scriptCalls) : ScriptFails(i)
  \/ \E env \in Environments, source \in Sources :
       loadLLMConfig(env, source[1], source[2], source[3])
  \/ \E action \in GeneratorActions, description \in Descriptions :
       generateAction(action, description, 1000)
  \/ generate
  \/ \E i \in 1..Len(generates) : ImportSettles(i)
  \/ \E i \in 1..Len(generates), outcome \in {"fulfilled", "rejected"} :
       GenerateSettles(i, outcome)
  \/ \E script \in CachedScripts : cachedEnhanceCompleteScript(script)
  \/ \E i \in 1..Len(scriptCalls), response \in CachedResponses :
       cachedScriptResponds(i, response)
  \/ \E code \in CodegenCodes, startTime \in StartTimes : enhanceAction(code, startTime)
  \/ \E env \in HostedEnvironments, userConfig \in UserConfigs :
       loadLLMConfigHosted(env, userConfig)
  \/ \E template \in Templates, actionData \in ActionDatas, generatedCode \in GeneratedCodes :
       buildUserPrompt(template, actionData, generatedCode)

Spec == Init /\ [][Next]_vars

----------------------------------------------------------------------------
(* Properties.                                                              *)

PerAction == module \in {"llmEnhancer", "codegenEnhancer"}

\* C1: the promise returned by enhanceWithLLM and by enhanceActionWithLLM is
\* never rejected; when the backend call of a request failed, every caller
\* that was handed that request is given its own generated code.
C1_NeverRejects ==
  \A c \in calls :
     /\ Outcome(c) # "rejected"
     /\ (c.promise # 0 /\ promises[c.promise].state # "pending" /\ ~CacheHas(c.key))
          => Result(c) = c.code

\* C2: the promise returned by enhanceCompleteScript is never rejected, and a
\* call whose whole-script backend call threw or rejected is resolved with
\* the script it was given.
C2_ScriptNeverRejects ==
  \A i \in 1..Len(scriptCalls) :
     /\ scriptCalls[i].outcome # "rejected"
     /\ scriptCalls[i].backend = "failed"
          => /\ scriptCalls[i].pc = "done"
             /\ scriptCalls[i].outcome = "fulfilled"
             /\ scriptCalls[i].result = scriptCalls[i].script

C2_Witness ==
  \E i \in 1..Len(scriptCalls) :
     /\ scriptCalls[i].backend = "failed"
     /\ scriptCalls[i].result = scriptCalls[i].script

\* C3: a call made while the request of its key is unsettled causes no
\* backend invocation and is handed that one request, so it is given what
\* the call that dispatched the request (the one that found no pending entry
\* for the key) is given; the dispatching call caused exactly one invocation,
\* and a key never has two unsettled requests.
C3_JoinInFlight ==
  /\ \A c \in calls :
        c.inflight # 0 => /\ c.promise = c.inflight
                          /\ c.invAfter = c.invBefore
  /\ \A c \in calls, d \in calls :
        (c.inflight # 0 /\ d.key \notin d.pendingKeys /\ d.promise = c.inflight)
          => /\ d.invAfter = d.invBefore + 1
             /\ Outcome(c) = Outcome(d)
             /\ Result(c) = Result(d)
  /\ \A p \in 1..Len(promises), q \in 1..Len(promises) :
        (promises[p].key = promises[q].key /\ promises[p].state = "pending"
           /\ promises[q].state = "pending") => p = q

C3_Witness ==
  \E c \in calls, d \in calls :
     /\ c.inflight # 0
     /\ d.key \notin d.pendingKeys
     /\ d.promise = c.inflight
     /\ Outcome(c) = "fulfilled"

C5_PendingCleared ==
  \A p \in 1..Len(promises) :
     /\ promises[p].state # "pending"
          => ~(PendingHas(promises[p].key) /\ pendingRequests[promises[p].key] = p)
     /\ promises[p].state = "fulfilled" => CacheHas(promises[p].key)

\* C6: enhanceCompleteScript of llmEnhancer.ts returns the original script when
\* one of the three counts of the rewrite is below 90% of the original's, and
\* the rewrite otherwise; 8 clicks of 10 are turned down, 9 of 10 accepted.
Below90(rewrite, original) ==
  \E op \in {Click, Fill, Goto} :
     100 * CountMatches(rewrite, op) < 90 * CountMatches(original, op)

C6_SafetyGate ==
  \A i \in 1..Len(scriptCalls) :
     (module = "llmEnhancerScript" /\ scriptCalls[i].backend = "responded")
       => LET original == scriptCalls[i].script
              rewrite == ExtractCode(scriptCalls[i].response)
          IN /\ scriptCalls[i].result = IF Below90(rewrite, original) THEN original ELSE rewrite
             /\ (CountMatches(original, Click) = 10 /\ CountMatches(rewrite, Click) = 8)
                  => scriptCalls[i].result = original
             /\ (original = MkScript(10, 0, 0) /\ CountMatches(rewrite, Click) = 9)
                  => scriptCalls[i].result = rewrite

C6_Witness ==
  \E i \in 1..Len(scriptCalls) :
     /\ module = "llmEnhancerScript"
     /\ scriptCalls[i].backend = "responded"
     /\ scriptCalls[i].script = MkScript(10, 0, 0)
     /\ ExtractCode(scriptCalls[i].response) = MkScript(9, 0, 0)
     /\ scriptCalls[i].result = MkScript(9, 0, 0)

\* The occurrences of fill and press are the scheduled checks, in the order
\* of arrival; the field "opens" of a check tells that every earlier check on
\* its element had run when the occurrence arrived, so that the occurrence
\* came after a silence of the quiet period and opens a burst.

\* Occurrence j closed a burst: its check has run and the next occurrence on
\* its element, if any, opens a burst.
ClosedBurst(j) ==
  /\ timers[j].fired
  /\ \A k \in (j + 1)..Len(timers) :
        ( /\ timers[k].elementKey = timers[j].elementKey
          /\ \A m \in (j + 1)..(k - 1) : timers[m].elementKey # timers[j].elementKey )
          => timers[k].opens

\* The occurrences of the burst that j closed.
Burst(j) ==
  { k \in 1..j :
      /\ timers[k].elementKey = timers[j].elementKey
      /\ \A m \in (k + 1)..j : timers[m].elementKey = timers[j].elementKey => ~timers[m].opens }

\* Each occurrence of the burst after the first came later than the one
\* before it, by less than the quiet period.
Rapid(j) ==
  \A k \in Burst(j), m \in Burst(j) :
     k < m => /\ timers[k].at < timers[m].at
              /\ (\A n \in Burst(j) : ~(k < n /\ n < m))
                   => timers[m].at - timers[k].at < Threshold(timers[j].kind)

\* No occurrence outside the burst carries a start time of the burst.
OwnStartTimes(j) ==
  \A k \in Burst(j), m \in 1..Len(timers) :
     (timers[m].kind = timers[k].kind /\ timers[m].startTime = timers[k].startTime)
       => m \in Burst(j)

Dispatches(j) == { k \in Burst(j) : timers[k].dispatched # 0 }

\* C7: a burst of occurrences of a debounced kind on one element, each less
\* than the quiet period after the one before and followed by the quiet
\* period, has caused exactly one completion dispatch, and no check of a
\* superseded occurrence dispatched.
C7_OneDispatchPerBurst ==
  \A j \in 1..Len(timers) :
     (ClosedBurst(j) /\ Rapid(j) /\ OwnStartTimes(j))
       => /\ Cardinality(Dispatches(j)) = 1
          /\ Dispatches(j) \subseteq {j}

\* C8: the completion dispatched for a burst has the key of the first
\* occurrence's start time and carries the generated code and the action of
\* the last occurrence.
C8_KeyedToFirstCarriesLast ==
  \A j \in 1..Len(timers) :
     (ClosedBurst(j) /\ Rapid(j)) =>
       \A k \in Dispatches(j) :
          LET first == CHOOSE f \in Burst(j) : \A m \in Burst(j) : f <= m
              request == promises[timers[k].dispatched]
          IN /\ request.key = CompleteKey(timers[j].kind, timers[first].startTime)
             /\ request.code = timers[j].code
             /\ timers[k].action = timers[j].action

\* C9: a fill or press call of enhanceWithLLM is answered with its generated
\* code, not with a promise of a request, whatever the cache and the pending
\* table hold; no caller is ever handed a completion request.
C9_DebouncedImmediate ==
  \A c \in calls :
     /\ (module = "llmEnhancer" /\ c.action.name \in {"fill", "press"})
          => c.promise = 0 /\ c.value = c.code
     /\ c.promise # 0 => promises[c.promise].kind = "direct"

C9_Witness ==
  \E c \in calls :
     /\ module = "llmEnhancer"
     /\ c.action.name \in {"fill", "press"}
     /\ c.pendingKeys # {}
     /\ c.promise = 0
     /\ c.value = c.code

\* C10: the barrier of waitForPendingRequests is never rejected, and when it
\* settles every request of its snapshot has settled.
C10_BarrierResolves ==
  \A i \in 1..Len(scriptCalls) :
     /\ scriptCalls[i].barrier # "rejected"
     /\ scriptCalls[i].unsettledAtBarrier = {}

\* C11: when enhanceCompleteScript of a CodegenEnhancer issues the whole-script
\* backend call, no per-action request is unsettled.
C11_ScriptCallAfterSettlement ==
  \A i \in 1..Len(scriptCalls) :
     module = "codegenEnhancer" => scriptCalls[i].inflightAtInvoke = {}

\* What a key resolves to under environment over file over default.
Precedence(fromEnv, fromFile, default) ==
  IF fromEnv # "" THEN fromEnv
  ELSE IF fromFile # Absent THEN fromFile
  ELSE default

\* C12: loadLLMConfig resolves the model, the base URL and the debug flag by
\* environment over file over default; with a file that sets the model to X
\* and OLLAMA_MODEL set to Y the model is Y.
C12_EnvOverFileOverDefault ==
  \A i \in 1..Len(loads) :
     LET l == loads[i]
     IN /\ l.config.ollama.model =
             Precedence(l.env.OLLAMA_MODEL, l.file.model, DefaultLLMConfig.ollama.model)
        /\ l.config.ollama.baseUrl =
             Precedence(l.env.OLLAMA_BASE_URL, l.file.baseUrl, DefaultLLMConfig.ollama.baseUrl)
        /\ l.config.debug =
             IF l.env.PW_DEBUG_LLM = "1" THEN TRUE
             ELSE IF l.file.debug # Absent THEN l.file.debug = "true"
             ELSE DefaultLLMConfig.debug

\* The first fenced code block of a text: from the first fence to the fence
\* after it; its contents are what follows the line of the opening fence.
OpeningFence(s) == NextFence(s, 1)

ClosingFence(s) == IF OpeningFence(s) = 0 THEN 0 ELSE NextFence(s, OpeningFence(s) + 1)

HasFencedBlock(s) == ClosingFence(s) # 0

RECURSIVE AfterFirstLine(_)
AfterFirstLine(s) ==
  IF s = << >> THEN << >>
  ELSE IF Head(s) = NL THEN Tail(s) ELSE AfterFirstLine(Tail(s))

BlockContents(s) ==
  LET inner == SubSeq(s, OpeningFence(s) + 1, ClosingFence(s) - 1)
  IN IF \E i \in 1..Len(inner) : inner[i] = NL THEN AfterFirstLine(inner) ELSE inner

\* The whole-script calls whose backend call returned a response, and whether
\* the call is one of llmEnhancer.ts, whose safety check may turn the rewrite
\* down and return the script.
Responded == { i \in 1..Len(scriptCalls) : scriptCalls[i].backend = "responded" }

Gated(i) == module = "llmEnhancerScript"

\* C13: a response that contains a fenced code block yields the trimmed
\* contents of the first such block, from a per-action request and from a
\* whole-script call (where the safety check may still return the script).
C13_FencedBlockExtracted ==
  /\ \A p \in 1..Len(promises) :
        (promises[p].state = "fulfilled" /\ HasFencedBlock(promises[p].response))
          => promises[p].value = Trim(BlockContents(promises[p].response))
  /\ \A i \in Responded :
        HasFencedBlock(scriptCalls[i].response)
          => \/ scriptCalls[i].result = Trim(BlockContents(scriptCalls[i].response))
             \/ Gated(i) /\ scriptCalls[i].result = scriptCalls[i].script

\* C14: a response that contains no fence yields the whole response with the
\* white space at its ends removed, from a per-action request and from a
\* whole-script call (where the safety check may still return the script).
C14_UnfencedTrimmed ==
  /\ \A p \in 1..Len(promises) :
        (promises[p].state = "fulfilled" /\ ~IncludesFence(promises[p].response))
          => promises[p].value = Trim(promises[p].response)
  /\ \A i \in Responded :
        ~IncludesFence(scriptCalls[i].response)
          => \/ scriptCalls[i].result = Trim(scriptCalls[i].response)
             \/ Gated(i) /\ scriptCalls[i].result = scriptCalls[i].script

\* C16: an empty response is a failed enhancement: every caller handed the
\* request is given its own generated code, and a whole-script call is
\* resolved with the script it was given.
C16_EmptyResponseFallsBack ==
  /\ \A c \in calls :
        (c.promise # 0 /\ promises[c.promise].state = "fulfilled"
           /\ promises[c.promise].response = << >>)
          => Result(c) = c.code
  /\ \A i \in Responded :
        scriptCalls[i].response = << >> => scriptCalls[i].result = scriptCalls[i].script

\* The code that generateAction emits without enhancement.
Baseline(g) == Format(wrapWithStep(g.description, generateActionCall(g.action)))

\* C15: generateAction is never rejected; a call made with the enhancer
\* disabled emits the baseline and causes no request, and a call whose
\* enhancement request was rejected emits the baseline.
C15_GenerateActionBaseline ==
  \A i \in 1..Len(generated) :
     LET g == generated[i]
     IN /\ g.outcome # "rejected"
        /\ ~g.enhancer => /\ g.outcome = "fulfilled"
                          /\ g.emitted = Baseline(g)
                          /\ g.invAfter = g.invBefore
        /\ (g.awaited # 0 /\ promises[g.awaited].state = "rejected")
             => /\ g.outcome = "fulfilled"
                /\ g.emitted = Baseline(g)

\* The entry of a key in a map: the value, or nothing.
Entry(m, k) == IF MapHas(m, k) THEN <<m[k]>> ELSE << >>

\* The keys that the cache or the pending table holds before or after a step.
KnownKeys ==
  (DOMAIN processedActionCache) \cup (DOMAIN pendingRequests)
    \cup (DOMAIN processedActionCache') \cup (DOMAIN pendingRequests')

\* A step that settles request p leaves the entries of every other key as
\* they are.
SettlesAlone(p) ==
  (promises[p].state = "pending" /\ promises'[p].state # "pending")
    => \A k \in KnownKeys \ {promises[p].key} :
          /\ Entry(processedActionCache', k) = Entry(processedActionCache, k)
          /\ Entry(pendingRequests', k) = Entry(pendingRequests, k)

\* A fulfilled request has put the code extracted from its own response in
\* the cache under its own key, and that is what its callers are given.
OwnResponse(p) ==
  promises[p].state = "fulfilled"
    => /\ promises[p].value = ExtractCode(promises[p].response)
       /\ Entry(processedActionCache, promises[p].key) = <<promises[p].value>>
       /\ \A c \in calls : c.promise = p => Result(c) = ExtractCode(promises[p].response)

\* C17: whatever the order in which the requests of different keys settle,
\* each key is cached with and each caller is given the code of that key's
\* own response, and settling a request changes neither the cache entry nor
\* the pending entry of another key.
C17_NoCrossEffects ==
  /\ [](\A p \in 1..Len(promises) : OwnResponse(p))
  /\ [][\A p \in 1..Len(promises) : SettlesAlone(p)]_vars

\* Two requests of different keys, the later one answered first.
C17_Witness ==
  \E p \in 1..Len(promises), q \in 1..Len(promises) :
     /\ p < q
     /\ promises[p].key # promises[q].key
     /\ promises[p].state = "pending"
     /\ Entry(pendingRequests, promises[p].key) = <<p>>
     /\ promises[q].state = "fulfilled"
     /\ Entry(processedActionCache, promises[q].key) = <<ExtractCode(promises[q].response)>>
     /\ \E c \in calls : c.promise = q

\* C18: a key that has a cached result keeps it, with the same value, through
\* every step.
C18_CacheNeverEvicted ==
  [][\A k \in DOMAIN processedActionCache :
        Entry(processedActionCache', k) = Entry(processedActionCache, k)]_vars

\* Two keys cached, one after the other.
C18_Witness ==
  \E p \in 1..Len(promises), q \in 1..Len(promises) :
     /\ p # q
     /\ promises[p].key # promises[q].key
     /\ Entry(processedActionCache, promises[p].key) = <<promises[p].value>>
     /\ Entry(processedActionCache, promises[q].key) = <<promises[q].value>>

\* C19: a custom provider has loaded and constructed nothing before its first
\* generate call, and over all its generate calls the user's module is
\* imported at most once and its class constructed at most once.
C19_LazyMemoizedLoad ==
  (module = "llmProvider" /\ provider.class = "custom")
    => /\ generates = << >> => (provider.imports = 0 /\ provider.constructions = 0
                                  /\ provider.provider = "null")
       /\ provider.imports <= 1
       /\ provider.constructions <= 1

\* C20: a generate call on a built-in provider whose configuration block is
\* absent is rejected with the configuration error, and the backend is not
\* contacted.
C20_MissingBlockFails ==
  (module = "llmProvider" /\ provider.class \in BuiltIn /\ ~provider.block)
    => /\ provider.contacts = 0
       /\ \A i \in 1..Len(generates) :
             /\ generates[i].pc = "done"
             /\ generates[i].outcome = "rejected"
             /\ generates[i].error = "configuration is missing"
             /\ ~generates[i].contacted

C20_Witness ==
  /\ module = "llmProvider"
  /\ provider.class = "anthropic"
  /\ ~provider.block
  /\ Len(generates) = MaxGenerates
  /\ \A i \in 1..Len(generates) : generates[i].outcome = "rejected"

\* C21: LLMProviderFactory.createProvider throws when the configuration lacks
\* the block that the selected provider requires.
C21_ConstructionFailsFast ==
  (module = "llmProvider" /\ ~provider.block) => provider.created = "threw"

\* The files that a loadLLMConfig call read, in the order it read them.
FilesRead(l) ==
  IF Exists(l.explicit) THEN <<l.explicit>>
  ELSE (IF Exists(l.first) THEN <<l.first>> ELSE << >>)
         \o (IF Exists(l.second) /\ ~(Exists(l.first) /\ l.first.state = "parsed")
               THEN <<l.second>> ELSE << >>)

\* The configuration after the files of a call, read one after the other,
\* where only a file that parses to an object changes it.
RECURSIVE AfterFiles(_, _)
AfterFiles(config, files) ==
  IF files = << >> THEN config
  ELSE IF Head(files).state = "parsed" THEN mergeConfigs(config, Head(files))
  ELSE AfterFiles(config, Tail(files))

\* C22: loadLLMConfig returns a configuration and never throws, whatever is at
\* the explicit path and at the default locations and whatever the
\* environment; a file that cannot be read or parsed leaves the configuration
\* as it was before that file was read.
C22_LoadNeverThrows ==
  \A i \in 1..Len(loads) :
     LET l == loads[i]
     IN /\ l.outcome = "returned"
        /\ l.config.ollama.model \in {"llama3", "X", "Y"}
        /\ l.config.debug \in BOOLEAN
        /\ l.config = AfterFiles(l.before, FilesRead(l))
        /\ (\A k \in 1..Len(FilesRead(l)) : FilesRead(l)[k].state # "parsed")
             => l.config = l.before

\* A malformed explicit file, and a malformed first location before a valid
\* second one.
C22_Witness ==
  /\ \E i \in 1..Len(loads) :
        loads[i].explicit.state = "malformed" /\ loads[i].config = loads[i].before
  /\ \E i \in 1..Len(loads) :
        /\ loads[i].first.state \in {"malformed", "unreadable", "null"}
        /\ loads[i].second.state = "parsed"
        /\ loads[i].config = mergeConfigs(loads[i].before, loads[i].second)

\* The backend invocations of all keys together.
RECURSIVE SumOf(_, _)
SumOf(m, keys) ==
  IF keys = {} THEN 0
  ELSE LET k == CHOOSE x \in keys : TRUE
       IN m[k] + SumOf(m, keys \ {k})

TotalInvocations == SumOf(invocations, DOMAIN invocations)

\* Every request was answered by one backend invocation, and every call
\* caused at most one.
OneRoundTrip ==
  /\ TotalInvocations = Len(promises)
  /\ \A p \in 1..Len(promises) :
        Invocations(promises[p].key)
          = Cardinality({q \in 1..Len(promises) : promises[q].key = promises[p].key})
  /\ Len(promises) <= ncalls
  /\ \A c \in calls : c.invAfter \in {c.invBefore, c.invBefore + 1}
  /\ \A i \in 1..Len(timers) :
        timers[i].dispatched # 0 => promises[timers[i].dispatched].key \in DOMAIN invocations
  /\ provider.contacts = Cardinality({i \in 1..Len(generates) : generates[i].contacted})
  /\ provider.contacts <= Len(generates)

\* A step that has the backend called creates a request, and nothing that has
\* settled (a request, a whole-script backend call, a generate call) is
\* started again.
NoRetry ==
  /\ invocations' # invocations
       => /\ Len(promises') = Len(promises) + 1
          /\ TotalInvocations' = TotalInvocations + 1
  /\ \A p \in 1..Len(promises) :
        promises[p].state # "pending" => promises'[p] = promises[p]
  /\ \A i \in 1..Len(scriptCalls) :
        scriptCalls[i].backend \in {"responded", "failed"}
          => scriptCalls'[i] = scriptCalls[i]
  /\ \A i \in 1..Len(generates) :
        generates[i].pc = "done" => generates'[i] = generates[i]

\* C23: a dispatched request is one backend round trip and a failed call is
\* not retried, by a provider or by the pipeline: one per-action call, one
\* whole-script call and one generate call each cause at most one backend
\* invocation.
C23_OneRoundTrip == []OneRoundTrip /\ [][NoRetry]_vars

\* A request that failed and was asked for again, beside a whole-script call
\* whose backend call failed.
C23_Witness ==
  /\ \E p \in 1..Len(promises), c \in calls :
        /\ promises[p].state = "rejected"
        /\ c.promise = p
        /\ c.key \in c.pendingKeys
        /\ Invocations(promises[p].key) = 1
  /\ \E i \in 1..Len(scriptCalls) : scriptCalls[i].backend = "failed"

\* C24: with the script cache, a call made with the script of an earlier call
\* that had succeeded makes no backend call and returns what that earlier
\* call returned.
C24_ScriptCacheHit ==
  \A j \in 1..Len(scriptCalls) :
     module = "scriptCache" =>
       \A i \in scriptCalls[j].after :
          /\ scriptCalls[j].backend = "none"
          /\ scriptCalls[j].result = scriptCalls[i].result

\* A call of a kind that its pipeline does not debounce.
NotDebounced(c) == module = "codegenEnhancer" \/ ~IsDebounced(c.action.name)

\* C25: for a kind that is not debounced, a call with the action name and
\* start time of an earlier call shares that call's entry whatever its
\* payload and generated code: one request exists for the two, the later call
\* causes no backend invocation and is given what the earlier call is given.
C25_SameNameAndStartTimeShare ==
  \A c \in calls, d \in calls :
     ( /\ NotDebounced(c)
       /\ c.action.name = d.action.name
       /\ c.startTime = d.startTime
       /\ c.seq < d.seq )
       => /\ d.key = c.key
          /\ d.invAfter = d.invBefore
          /\ Cardinality({p \in 1..Len(promises) : promises[p].key = c.key}) = 1
          /\ Outcome(d) = Outcome(c)
          /\ Outcome(c) = "fulfilled" => Result(d) = Result(c)

\* Two clicks with one start time on different elements, the second made
\* while the request of the first was unsettled and answered with the first.
C25_Witness ==
  \E c \in calls, d \in calls :
     /\ c.action.name = "click" /\ d.action.name = "click"
     /\ c.action.selector # d.action.selector
     /\ c.startTime = d.startTime
     /\ c.code # d.code
     /\ c.seq < d.seq
     /\ d.inflight # 0
     /\ Outcome(d) = "fulfilled"
     /\ Result(d) = Result(c)

\* C26: enhanceCompleteScript of a CodegenEnhancer returns a rewrite only when
\* none of the three counts of the rewrite is below 90% of the original's.
C26_CodegenSafetyGate ==
  \A i \in 1..Len(scriptCalls) :
     (module = "codegenEnhancer" /\ scriptCalls[i].pc = "done"
        /\ scriptCalls[i].result # scriptCalls[i].script)
       => ~Below90(scriptCalls[i].result, scriptCalls[i].script)

\* The scheduling that the event loop and an answering whole-script backend
\* give a CodegenEnhancer: the reaction to a settled barrier runs, and the
\* whole-script backend call returns or fails.  The per-action requests are
\* not required to settle.
ScriptBackendSettles ==
  \E i \in 1..MaxScriptCalls :
     \/ ScriptFails(i)
     \/ \E response \in Responses : codegenScriptResponds(i, response)

LiveSpec ==
  /\ Spec
  /\ WF_vars(\E i \in 1..MaxScriptCalls : AfterBarrier(i))
  /\ WF_vars(ScriptBackendSettles)

\* C27: every enhanceCompleteScript call of a CodegenEnhancer is eventually
\* resolved, also when a request in the pending table never settles.
C27_ScriptCallResolves ==
  \A i \in 1..MaxScriptCalls :
     (module = "codegenEnhancer" /\ Len(scriptCalls) >= i)
       ~> (Len(scriptCalls) >= i /\ scriptCalls[i].pc = "done")

\* C28: an enhanceCompleteScript call of a CodegenEnhancer with a script
\* enhancer issues the whole-script backend call, also when a per-action
\* request has failed before or during its wait.
C28_FailureDoesNotBlockScript ==
  \A i \in 1..Len(scriptCalls) :
     (module = "codegenEnhancer" /\ scriptEnhancer /\ scriptCalls[i].pc = "done")
       => scriptCalls[i].backend \in {"responded", "failed"}

\* The tracker of a kind.
TrackerOf(kind) == IF kind = "fill" THEN fillActionsTracker ELSE pressActionsTracker

\* C29: when the check of a fill or press occurrence that was still the
\* latest on its element after the quiet period has run, the burst of that
\* occurrence is covered: a check of the burst has dispatched a completion, or
\* the completion key (the one the check computes, or the one of the
\* occurrence's own start time) was pending or cached.  In particular a new
\* occurrence that arrives while the completion request of an earlier burst
\* on the element is in flight does not make the new burst's check a no-op.
C29_FinalOccurrenceCovered ==
  \A j \in 1..Len(timers) :
     (timers[j].fired /\ timers[j].latest)
       => \/ Dispatches(j) # {}
          \/ timers[j].found \in {"pending", "cached"}
          \/ timers[j].ownKeyKnown

\* No occurrence has arrived on the element of check j since it ran.
NoNewOccurrence(j) ==
  \A k \in (j + 1)..Len(timers) : timers[k].elementKey # timers[j].elementKey

\* C30: once a check has found its occurrence final, and its completion is
\* cached or no longer in flight, the tracker holds no entry for the element
\* until a new occurrence arrives.
C30_TrackerEntryRemoved ==
  \A j \in 1..Len(timers) :
     ( /\ timers[j].fired
       /\ timers[j].latest
       /\ timers[j].found \in {"dispatched", "pending", "cached"}
       /\ ~PendingHas(timers[j].key)
       /\ NoNewOccurrence(j) )
       => ~MapHas(TrackerOf(timers[j].kind), timers[j].elementKey)

\* C31: debouncing is independent per element: a check that finds its
\* completion key pending or cached, and so dispatches nothing for its burst,
\* finds the request of a burst on its own element, also when occurrences on
\* two elements carry the same start time.
C31_IndependentPerElement ==
  \A j \in 1..Len(timers) :
     timers[j].found \in {"pending", "cached"}
       => \A p \in 1..Len(promises) :
             promises[p].key = timers[j].key
               => promises[p].elementKey = timers[j].elementKey

\* C32: a call leaves the caller's Action object as it was: after a cache hit,
\* a join, a debounced answer or a dispatch, the object and the objects it
\* refers to have the keys they had before the call.
C32_ActionUnchanged ==
  \A i \in 1..Len(prepared) : prepared[i].after = prepared[i].before

\* The dispatches: the direct ones and the completions of fill and press.
Dispatched == { i \in 1..Len(prepared) : prepared[i].way \in {"dispatched", "completion"} }

\* C33: the JSON body of the prompt of a dispatch, direct or completion, in
\* either file, has no key "position".
C33_NoPositionInPayload ==
  \A i \in Dispatched : <<"position">> \notin prepared[i].actionData

\* A click that carried a position was dispatched, and its body kept the
\* other keys.
C33_Witness ==
  /\ \E i \in Dispatched :
        /\ prepared[i].way = "dispatched"
        /\ <<"position">> \in prepared[i].before
        /\ <<"position">> \notin prepared[i].actionData
        /\ <<"selector">> \in prepared[i].actionData

\* The keys of the JSON body that name what the Element Information block
\* prints.
Surfaced ==
  {<<"targetInfo", k>> : k \in SummaryKeys} \cup {<<"targetInfo", "paths", k>> : k \in PathKeys}

\* C34: when the prompt of a dispatch, direct or completion, has the Element
\* Information block, its JSON body has none of the fields of targetInfo that
\* the block prints.
C34_NoDuplicateElementData ==
  \A i \in Dispatched :
     prepared[i].elementContext => prepared[i].actionData \cap Surfaced = {}

\* The hosted backends whose credential variables are present.
Credentialed(env) ==
  (IF env.OPENAI_API_KEY # "" THEN {"openai"} ELSE {})
    \cup (IF env.ANTHROPIC_API_KEY # "" THEN {"anthropic"} ELSE {})
    \cup (IF env.AZURE_OPENAI_API_KEY # "" /\ env.AZURE_OPENAI_ENDPOINT # ""
             /\ env.AZURE_OPENAI_DEPLOYMENT # "" THEN {"azure-openai"} ELSE {})

\* C35: the provider of the resolved configuration is a backend whose
\* credential variable is present, whenever one is present, also when the file
\* names another provider; and the block of such a backend that the file did
\* not set is the one seeded from the environment.
C35_CredentialSwitchesProvider ==
  \A i \in 1..Len(resolved) :
     LET l == resolved[i]
     IN /\ Credentialed(l.env) # {} => l.config.provider \in Credentialed(l.env)
        /\ ("openai" \in Credentialed(l.env) /\ l.userConfig.openai = NoBlock)
             => l.config.openai =
                  Block([apiKey |-> l.env.OPENAI_API_KEY,
                         model |-> OrElse(l.env.OPENAI_MODEL, "gpt-3.5-turbo")])
        /\ ("anthropic" \in Credentialed(l.env) /\ l.userConfig.anthropic = NoBlock)
             => l.config.anthropic # NoBlock /\ l.config.anthropic[1].apiKey = l.env.ANTHROPIC_API_KEY
        /\ ("azure-openai" \in Credentialed(l.env) /\ l.userConfig.azureOpenai = NoBlock)
             => l.config.azureOpenai # NoBlock
                  /\ l.config.azureOpenai[1].endpoint = l.env.AZURE_OPENAI_ENDPOINT

\* The ollama block of a configuration that an earlier load returned, as it
\* is now: "let config = { ...defaultLLMConfig }" copies the reference, so the
\* block is the one of defaultLLMConfig unless mergeConfigs replaced it by a
\* spread, which it does when the file has an ollama block.
ReturnedOllama(l) ==
  IF l.file.model = Absent /\ l.file.baseUrl = Absent THEN defaultLLMConfig.ollama
  ELSE l.config.ollama

\* A load with none of the three variables set that merged no file.
PlainLoad(l) ==
  /\ l.env.OLLAMA_BASE_URL = "" /\ l.env.OLLAMA_MODEL = "" /\ l.env.PW_DEBUG_LLM = ""
  /\ l.file = NoFile

\* C36: loadLLMConfig leaves defaultLLMConfig as the module defined it, a load
\* without file and without environment overrides returns the default values
\* whatever was loaded before, and a configuration that was returned keeps
\* the values it was returned with.
C36_DefaultsUntouched ==
  /\ defaultLLMConfig = DefaultLLMConfig
  /\ \A i \in 1..Len(loads) :
        /\ PlainLoad(loads[i]) => loads[i].config = DefaultLLMConfig
        /\ ReturnedOllama(loads[i]) = loads[i].config.ollama

\* C37: a custom provider whose loaded instance has no generate method does
\* not keep that instance in this.provider, and each of its generate calls
\* that has ended was rejected with the load error.
C37_InvalidProviderNotRetained ==
  (module = "llmProvider" /\ provider.class = "custom" /\ provider.block
     /\ provider.userModule = "noGenerate")
    => /\ provider.provider = "null"
       /\ \A i \in 1..Len(generates) :
             generates[i].pc = "done"
               => /\ generates[i].outcome = "rejected"
                  /\ generates[i].error = "Failed to load custom provider"

\* The template with every placeholder replaced by the value of its
\* variable, as the value is.
RECURSIVE Substituted(_, _)
Substituted(template, variables) ==
  IF template = << >> THEN << >>
  ELSE (IF \E k \in 1..Len(VariableNames) : Head(template) = Placeholder(VariableNames[k])
          THEN variables[CHOOSE name \in DOMAIN variables : Head(template) = Placeholder(name)]
          ELSE <<Head(template)>>) \o Substituted(Tail(template), variables)

\* C38: processTemplate yields the template with every occurrence of each
\* placeholder replaced by the supplied value as it is: text that came from a
\* value is neither expanded as a placeholder nor read as a replacement
\* pattern.
C38_VerbatimSubstitution ==
  \A i \in 1..Len(prompts) :
     prompts[i].userPrompt = Substituted(prompts[i].template, prompts[i].variables)

\* C39: with the script cache, a call that is answered from the cache had the
\* script of an earlier call whose rewrite was cached: two different scripts
\* never share a cache entry.
C39_CacheEntryPerScript ==
  \A j \in 1..Len(scriptCalls) :
     (module = "scriptCache" /\ scriptCalls[j].hit)
       => \E i \in 1..Len(scriptCalls) :
             /\ i # j
             /\ scriptCalls[i].script = scriptCalls[j].script
             /\ scriptCalls[i].backend = "responded"

\* C40: between jobs no key is both cached and pending, and the request of a
\* key in the pending table is unsettled.
C40_CacheAndPendingDisjoint ==
  \A k \in DOMAIN pendingRequests :
     /\ ~CacheHas(k)
     /\ promises[pendingRequests[k]].state = "pending"

====
